---- MODULE Spec2Model ----
(***************************************************************************)
(* Model of the VariantWise recommendation core: the preference-alignment  *)
(* engine (preference_alignment.py), the brand filter of the diversity     *)
(* engine (diversity_reranker.py) and the pipeline orchestrator            *)
(* (recommendation_pipeline.py).                                           *)
(*                                                                         *)
(* Conventions.  Fractions are integers in percent (0.8 is 80, a price     *)
(* tolerance of 0.15 is 15).  Texts are strings; the text conversions of   *)
(* the code (lower-casing, punctuation stripping, substring tests) are     *)
(* tabulated over the finite universe of texts the model uses.  None and a *)
(* missing dictionary key are the value None.                              *)
(***************************************************************************)
EXTENDS Integers, Sequences, FiniteSets, TLC

None == "<none>"
\* a numeric field that is None or missing
NoNumber == -1

(***************************************************************************)
(* Bounds of the model.                                                    *)
(***************************************************************************)
MaxPool == 5

(***************************************************************************)
(* Generic helpers.                                                        *)
(***************************************************************************)
Min2(a, b) == IF a <= b THEN a ELSE b
Max2(a, b) == IF a >= b THEN a ELSE b
Range(s) == {s[i] : i \in DOMAIN s}

RECURSIVE SeqFilter(_, _)
\* [x for x in s if keep[x]] with keep a set of positions' verdicts
SeqFilter(s, keep) ==
    IF s = <<>> THEN <<>>
    ELSE (IF keep[1] THEN <<Head(s)>> ELSE <<>>)
         \o SeqFilter(Tail(s), [i \in 1..(Len(s) - 1) |-> keep[i + 1]])

RECURSIVE SetToSeq(_)
SetToSeq(S) ==
    IF S = {} THEN <<>>
    ELSE LET x == CHOOSE y \in S : TRUE IN <<x>> \o SetToSeq(S \ {x})

(***************************************************************************)
(* Text conversions.                                                       *)
(***************************************************************************)
\* re.sub / lower / strip of normalize_text, tabulated
normalize_text(value) ==
    CASE value = None -> ""
      [] value \in {"Honda", "honda", " HONDA "} -> "honda"
      [] value \in {"Tata", " TATA "} -> "tata"
      [] value \in {"Maruti", "MARUTI", "maruti!"} -> "maruti"
      [] value \in {"Kia"} -> "kia"
      [] value \in {"Hyundai"} -> "hyundai"
      [] value \in {"Toyota"} -> "toyota"
      [] value \in {"Unknown"} -> "unknown"
      [] value \in {"", "--", "  ", "!!"} -> ""
      [] value \in {"Sunroof", "SUNROOF"} -> "sunroof"
      [] value \in {"Wireless-Charging"} -> "wireless charging"
      [] value \in {"ABS"} -> "abs"
      [] value \in {"Petrol"} -> "petrol"
      [] value \in {"Gasoline"} -> "gasoline"
      [] value \in {"Diesel"} -> "diesel"
      [] value \in {"Any"} -> "any"
      [] value \in {"SUV"} -> "suv"
      [] value \in {"Compact SUV"} -> "compact suv"
      [] value \in {"Sedan"} -> "sedan"
      [] value \in {"Automatic"} -> "automatic"
      [] value \in {"AMT"} -> "amt"
      [] value \in {"Manual"} -> "manual"
      [] value \in {"Honda City VX"} -> "honda city vx"
      [] value \in {"Tata Nexon XZ"} -> "tata nexon xz"
      [] value \in {"Maruti Brezza ZXi"} -> "maruti brezza zxi"
      [] value \in {"Kia Seltos HTK+"} -> "kia seltos htk"
      [] value \in {"Hyundai Creta SX"} -> "hyundai creta sx"
      [] value \in {"Toyota Hyryder V"} -> "toyota hyryder v"
      [] value \in {"Honda Amaze S"} -> "honda amaze s"
      [] OTHER -> value

normalize_brand(value) == normalize_text(value)

normalize_feature(value) == normalize_text(value)

\* str(value).lower() as used by _flatten_car_text
lower(value) ==
    CASE value \in {"Honda", " HONDA "} -> IF value = "Honda" THEN "honda" ELSE " honda "
      [] value \in {"Tata", "TATA"} -> "tata"
      [] value \in {"MARUTI", "Maruti"} -> "maruti"
      [] value = "Kia" -> "kia"
      [] value = "Hyundai" -> "hyundai"
      [] value = "Toyota" -> "toyota"
      [] value = "Petrol" -> "petrol"
      [] value = "Gasoline" -> "gasoline"
      [] value = "Diesel" -> "diesel"
      [] value = "SUV" -> "suv"
      [] value = "Compact SUV" -> "compact suv"
      [] value = "Sedan" -> "sedan"
      [] value = "Automatic" -> "automatic"
      [] value = "AMT" -> "amt"
      [] value = "Manual" -> "manual"
      [] value = "Honda City VX" -> "honda city vx"
      [] value = "Tata Nexon XZ" -> "tata nexon xz"
      [] value = "Maruti Brezza ZXi" -> "maruti brezza zxi"
      [] value = "Kia Seltos HTK+" -> "kia seltos htk+"
      [] value = "Hyundai Creta SX" -> "hyundai creta sx"
      [] value = "Toyota Hyryder V" -> "toyota hyryder v"
      [] value = "Honda Amaze S" -> "honda amaze s"
      [] value = "Unknown" -> "unknown"
      [] value = "Any" -> "any"
      [] value \in {"Sunroof", "SUNROOF"} -> "sunroof"
      [] value = "ABS" -> "abs"
      [] value = "Wireless-Charging" -> "wireless-charging"
      [] OTHER -> value

\* the proper substrings (of the texts of the model) of a text
ProperSubstrings(text) ==
    CASE text = "panoramic sunroof" -> {"panoramic", "sunroof"}
      [] text = "wireless charger" -> {"wireless"}
      [] text = "wireless charging" -> {"wireless"}
      [] text = "compact suv" -> {"suv", "compact"}
      [] text = "honda city vx" -> {"honda"}
      [] text = "honda amaze s" -> {"honda"}
      [] text = " honda " -> {"honda"}
      [] text = "tata nexon xz" -> {"tata"}
      [] text = "maruti brezza zxi" -> {"maruti"}
      [] text = "kia seltos htk" -> {"kia"}
      [] text = "kia seltos htk+" -> {"kia", "kia seltos htk"}
      [] text = "hyundai creta sx" -> {"hyundai"}
      [] text = "toyota hyryder v" -> {"toyota"}
      [] text = "automatic" -> {"auto"}
      [] OTHER -> {}

\* Python's `needle in text` on strings
Contains(text, needle) ==
    \/ needle = ""
    \/ needle = text
    \/ needle \in ProperSubstrings(text)

\* text.split(" ")[0] of a normalized text
FirstWord(text) ==
    CASE text = "honda city vx" -> "honda"
      [] text = "honda amaze s" -> "honda"
      [] text = "tata nexon xz" -> "tata"
      [] text = "maruti brezza zxi" -> "maruti"
      [] text = "kia seltos htk" -> "kia"
      [] text = "hyundai creta sx" -> "hyundai"
      [] text = "toyota hyryder v" -> "toyota"
      [] OTHER -> text

_to_normalized_set(values) ==
    {normalize_text(v) : v \in {w \in values : normalize_text(w) # ""}}

(***************************************************************************)
(* Catalog rows.  A row is the `car` payload of a ranked variant; a field  *)
(* the row does not have is None.  Prices are in units in which the upper  *)
(* budget bound of the model's preferences is 100.                         *)
(***************************************************************************)
Row(variant, brand, price, fuel, body, trans, seats, feats) ==
    [variant |-> variant, brand |-> brand, numeric_price |-> price,
     fuel_type |-> fuel, body_type |-> body, transmission |-> trans,
     seating |-> seats, features |-> feats]

\* the catalog, in descending order of the base score of the rows
Catalog ==
    << Row("Tata Nexon XZ", "Tata", 120, "Petrol", "SUV", "Manual", 5, {}),
       Row("Maruti Brezza ZXi", "MARUTI", 100, "Gasoline", "Compact SUV", "Automatic", 5,
           {"panoramic sunroof"}),
       Row("Kia Seltos HTK+", "Kia", 100, "Petrol", "SUV", "AMT", 5, {"wireless charging"}),
       Row("Hyundai Creta SX", "Hyundai", 100, "Diesel", "SUV", "Automatic", 5,
           {"sunroof", "wireless charging"}),
       Row("Honda City VX", "Honda", 90, "Petrol", "Sedan", "Automatic", 5, {"sunroof"}),
       Row("Honda Amaze S", None, 140, "Petrol", "Sedan", "Manual", 5, {}),
       Row("Toyota Hyryder V", "Toyota", 100, "Petrol", "SUV", "Automatic", 5, {}) >>

CarIds == DOMAIN Catalog

\* base score the external scoring function gives to a row
BaseScore(c) == (Len(Catalog) + 1 - c) * 100000

\* a ranked variant as the external scoring function returns it
RankedVariant(c) ==
    [id |-> c, car |-> Catalog[c], score |-> BaseScore(c), combined_score |-> BaseScore(c),
     alignment_score |-> 0, hard_failures |-> <<>>, preferred_brand_boost |-> FALSE]

(***************************************************************************)
(* preference_alignment.py                                                 *)
(***************************************************************************)
_FUEL_SYNONYMS ==
    [petrol |-> {"petrol", "gasoline"}, diesel |-> {"diesel"},
     electric |-> {"electric", "ev", "battery"},
     cng |-> {"cng", "compressed natural gas"}, hybrid |-> {"hybrid"}]

_BODY_SYNONYMS ==
    [suv |-> {"suv", "sport utility vehicle", "compact suv", "midsize suv"},
     sedan |-> {"sedan", "saloon"}, hatchback |-> {"hatchback", "hatch"},
     muv |-> {"muv", "mpv", "multi utility vehicle"}, crossover |-> {"crossover"}]

_TRANSMISSION_SYNONYMS ==
    [automatic |-> {"automatic", "amt", "cvt", "dct", "ivt"}, manual |-> {"manual", "mt"}]

_FEATURE_SYNONYMS ==
    [f \in {"sunroof", "apple carplay android auto", "automatic climate control",
            "360 camera", "lane assist", "ventilated seats", "wireless charging"} |->
        CASE f = "sunroof" -> {"sunroof", "panoramic", "moonroof"}
          [] f = "apple carplay android auto" -> {"apple carplay", "android auto", "carplay"}
          [] f = "automatic climate control" ->
                {"automatic climate control", "climate control", "auto ac"}
          [] f = "360 camera" -> {"360 camera", "360", "surround view", "parking camera"}
          [] f = "lane assist" -> {"lane assist", "lane keep", "adas"}
          [] f = "ventilated seats" -> {"ventilated seats", "ventilated"}
          [] f = "wireless charging" -> {"wireless charging", "wireless charger"}]

extract_brand_from_payload(car) ==
    LET brand == normalize_brand(car.brand)
        variant_name == normalize_text(car.variant)
    IN  IF brand # "" THEN brand
        ELSE IF variant_name = "" THEN ""
        ELSE FirstWord(variant_name)

\* a priority scale read upside down
Priority_Reversed(controls, key) ==
    IF key \in DOMAIN controls.scoring_priorities
    THEN 100 - controls.scoring_priorities[key] ELSE 50

Priority(controls, key) ==
    IF key \in DOMAIN controls.scoring_priorities
    THEN controls.scoring_priorities[key] ELSE 50

\* a preference value that is not one of None, "", "Any", []
PrefGiven(preferences, key) ==
    CASE key = "features" -> preferences.features # <<>>
      [] key = "seating" -> preferences.seating # NoNumber
      [] OTHER -> preferences[key] \notin {None, "", "Any"}

compile_alignment_rules(preferences, controls, must_have_preferences) ==
    LET brand_mode == controls.brand_mode
        preferred_brands == _to_normalized_set(controls.preferred_brands)
        blacklisted_brands == _to_normalized_set(controls.blacklisted_brands)
        strict_brands == IF brand_mode = "strict" THEN preferred_brands ELSE {}
        hard_preferences ==
            must_have_preferences \cup
            {key \in {"fuel_type", "body_type", "transmission", "seating", "features"} :
                Priority(controls, key) >= 80 /\ PrefGiven(preferences, key)}
        strict_budget == Priority(controls, "budget") >= 80
        price_tolerance == Max2(2, Min2(50, controls.price_tolerance))
        budget_tolerance ==
            IF strict_budget THEN Min2(price_tolerance, 12)
            ELSE Min2(Max2(8, price_tolerance), 30)
    IN  [brand_mode |-> brand_mode,
         preferred_brands |-> preferred_brands,
         blacklisted_brands |-> blacklisted_brands,
         strict_brands |-> strict_brands,
         hard_preferences |-> hard_preferences,
         strict_budget |-> strict_budget,
         budget_tolerance |-> budget_tolerance,
         must_have_features |-> _to_normalized_set(controls.must_have_features),
         nice_to_have_features |-> _to_normalized_set(controls.nice_to_have_features)]

has_strict_constraints(rules) ==
    \/ rules.strict_brands # {}
    \/ rules.blacklisted_brands # {}
    \/ rules.must_have_features # {}
    \/ rules.strict_budget

_matches_with_synonyms(pref_value, actual_value, synonym_map) ==
    LET pref == normalize_text(pref_value)
        actual == normalize_text(actual_value)
        keys == {k \in DOMAIN synonym_map : Contains(pref, k)}
    IN  IF pref = "" \/ pref = "any" THEN TRUE
        ELSE IF actual = "" THEN FALSE
        ELSE IF Contains(actual, pref) \/ Contains(pref, actual) THEN TRUE
        ELSE IF keys # {}
             THEN LET key == CHOOSE k \in keys : TRUE
                  IN  \E alias \in synonym_map[key] : Contains(actual, alias)
        ELSE FALSE

\* the parts that _flatten_car_text joins with blanks
_flatten_car_text(car) ==
    {lower(car[f]) : f \in {g \in {"variant", "brand", "fuel_type", "body_type", "transmission"} :
                              car[g] # None}}
    \cup car.features

InBlob(needle, blob) == needle = "" \/ \E part \in blob : Contains(part, needle)

_feature_present(feature_key, blob) ==
    IF feature_key = "" THEN FALSE
    ELSE IF InBlob(feature_key, blob) THEN TRUE
    ELSE LET aliases == IF feature_key \in DOMAIN _FEATURE_SYNONYMS
                        THEN _FEATURE_SYNONYMS[feature_key] ELSE {feature_key}
         IN  \E alias \in aliases : InBlob(alias, blob)

\* a blacklist check that lets a preferred brand through
BlacklistedBrand_PreferredWins(brand, rules) ==
    brand # "" /\ brand \in rules.blacklisted_brands /\ brand \notin rules.preferred_brands

\* `if brand and brand in blacklisted_brands`
BlacklistedBrand(brand, rules) == brand # "" /\ brand \in rules.blacklisted_brands

\* `if strict_brands and brand not in strict_brands`
OutsideStrictList(brand, rules) == rules.strict_brands # {} /\ brand \notin rules.strict_brands

\* must-have features demanded only when the `features` dimension is hard
RequiredFeatures_OnlyWhenHard(rules, preferences) ==
    IF "features" \in rules.hard_preferences
    THEN rules.must_have_features \cup
         {normalize_feature(f) : f \in {g \in Range(preferences.features) :
                                          normalize_feature(g) # ""}}
    ELSE {}

\* the features whose absence is a hard failure
RequiredFeatures(rules, preferences) ==
    rules.must_have_features \cup
    (IF "features" \in rules.hard_preferences
     THEN {normalize_feature(f) : f \in {g \in Range(preferences.features) :
                                           normalize_feature(g) # ""}}
     ELSE {})

\* alignment scores are integers in units of 1/AlignScale
AlignScale == 84000

evaluate_variant_alignment(variant_match, rules, preferences) ==
    LET car == variant_match.car
        brand == extract_brand_from_payload(car)
        hard == rules.hard_preferences
        blob == _flatten_car_text(car)
        brandFail ==
            (IF BlacklistedBrand(brand, rules)
             THEN << <<"blacklisted_brand">> >> ELSE <<>>)
            \o (IF OutsideStrictList(brand, rules)
                THEN << <<"brand_not_in_strict_list">> >> ELSE <<>>)
        preferred_brand_hit == brand # "" /\ brand \in rules.preferred_brands
        \* budget
        price == car.numeric_price
        max_budget == preferences.budget[2]
        min_budget == preferences.budget[1]
        budgetOn == price # NoNumber /\ max_budget # 0
        overflow == budgetOn /\ price * 100 > max_budget * (100 + rules.budget_tolerance)
        budgetHard == overflow /\ ("budget" \in hard \/ rules.strict_budget)
        budgetSoft == (IF overflow /\ ~budgetHard THEN <<"budget_overflow_soft">> ELSE <<>>)
                      \o (IF budgetOn /\ price * 10 < min_budget * 6
                          THEN <<"budget_too_low">> ELSE <<>>)
        \* one text dimension: <<active, matched>>
        fuelOn == preferences.fuel_type \notin {None, "", "Any"}
        fuelOk == _matches_with_synonyms(preferences.fuel_type, car.fuel_type, _FUEL_SYNONYMS)
        bodyOn == preferences.body_type \notin {None, "", "Any"}
        bodyOk == _matches_with_synonyms(preferences.body_type, car.body_type, _BODY_SYNONYMS)
        transOn == preferences.transmission \notin {None, "", "Any"}
        transOk == _matches_with_synonyms(preferences.transmission, car.transmission,
                                          _TRANSMISSION_SYNONYMS)
        seatOn == preferences.seating \notin {NoNumber, 0}
        seatOk == car.seating # NoNumber /\ car.seating >= preferences.seating
        Dim(on, ok, key, name) ==
            IF on /\ ~ok /\ key \in hard THEN << <<name>> >> ELSE <<>>
        DimSoft(on, ok, key, name) ==
            IF on /\ ~ok /\ key \notin hard THEN <<name>> ELSE <<>>
        required_features == RequiredFeatures(rules, preferences)
        missing == {f \in required_features : ~_feature_present(f, blob)}
        featureFail == [i \in 1..Cardinality(missing) |->
                            <<"missing_feature", SetToSeq(missing)[i]>>]
        nice_to_have == rules.nice_to_have_features
        nice_hits == Cardinality({f \in nice_to_have : _feature_present(f, blob)})
        hard_failures ==
            brandFail
            \o (IF budgetHard THEN << <<"budget_overflow">> >> ELSE <<>>)
            \o Dim(fuelOn, fuelOk, "fuel_type", "fuel_mismatch")
            \o Dim(bodyOn, bodyOk, "body_type", "body_mismatch")
            \o Dim(transOn, transOk, "transmission", "transmission_mismatch")
            \o Dim(seatOn, seatOk, "seating", "seating_mismatch")
            \o featureFail
        soft_issues ==
            budgetSoft
            \o DimSoft(fuelOn, fuelOk, "fuel_type", "fuel_mismatch_soft")
            \o DimSoft(bodyOn, bodyOk, "body_type", "body_mismatch_soft")
            \o DimSoft(transOn, transOk, "transmission", "transmission_mismatch_soft")
            \o DimSoft(seatOn, seatOk, "seating", "seating_mismatch_soft")
        B(b) == IF b THEN 1 ELSE 0
        total_signals ==
            B(budgetOn) + B(fuelOn) + B(bodyOn) + B(transOn) + B(seatOn)
            + Cardinality(required_features)
        matched_signals ==
            B(budgetOn /\ ~overflow) + B(fuelOn /\ fuelOk) + B(bodyOn /\ bodyOk)
            + B(transOn /\ transOk) + B(seatOn /\ seatOk)
            + Cardinality(required_features \ missing)
        base_score ==
            (matched_signals * AlignScale) \div Max2(1, total_signals)
            + (IF preferred_brand_hit THEN (8 * AlignScale) \div 100 ELSE 0)
            + (IF nice_to_have # {}
               THEN (5 * AlignScale * nice_hits) \div (100 * Max2(1, Cardinality(nice_to_have)))
               ELSE 0)
            - ((3 * AlignScale) \div 100) * Len(soft_issues)
    IN  [compliant |-> hard_failures = <<>>,
         hard_failures |-> hard_failures,
         soft_issues |-> soft_issues,
         preferred_brand_hit |-> preferred_brand_hit,
         alignment_score |-> Max2(0, Min2(AlignScale, base_score))]

\* lexicographic "a sorts strictly before b" on integer key tuples (ascending)
RECURSIVE KeyLess(_, _)
KeyLess(a, b) ==
    IF a = <<>> THEN FALSE
    ELSE IF Head(a) # Head(b) THEN Head(a) < Head(b)
    ELSE KeyLess(Tail(a), Tail(b))

\* Python's stable sorted(seq, key=...): keys[i] is the integer key tuple of seq[i]
SortedBy(seq, keys) ==
    LET Before(i, j) == KeyLess(keys[i], keys[j]) \/ (keys[i] = keys[j] /\ i < j)
        Rank(i) == Cardinality({j \in DOMAIN seq : Before(j, i)})
    IN  [r \in DOMAIN seq |-> seq[CHOOSE i \in DOMAIN seq : Rank(i) = r - 1]]

\* the per-variant loop body of enforce_alignment_on_ranked_variants
AlignVariant(variant, rules, preferences) ==
    CHOOSE out \in
        {[variant EXCEPT
             !.alignment_score = alignment.alignment_score,
             !.hard_failures = alignment.hard_failures,
             !.score = IF alignment.preferred_brand_hit THEN (@ * 115) \div 100 ELSE @,
             !.combined_score = IF alignment.preferred_brand_hit
                                THEN (@ * 115) \div 100 ELSE @,
             !.preferred_brand_boost = @ \/ alignment.preferred_brand_hit] :
         alignment \in {evaluate_variant_alignment(variant, rules, preferences)}} : TRUE

\* a relaxation that backfills `needed` violated variants and forgets the rest
AlignmentResult_NoBackfill(compliant, violated, min_results, allow_relaxation) ==
    LET needed == Min2(Max2(0, min_results - Len(compliant)), Len(violated))
    IN  IF allow_relaxation /\ Len(compliant) < min_results
        THEN compliant \o SubSeq(violated, 1, needed - 1)
        ELSE IF ~allow_relaxation THEN compliant
        ELSE compliant \o violated

\* the return statements of enforce_alignment_on_ranked_variants
AlignmentResult(compliant, violated, min_results, allow_relaxation) ==
    LET needed == Min2(Max2(0, min_results - Len(compliant)), Len(violated))
    IN  IF allow_relaxation /\ Len(compliant) < min_results
        THEN compliant \o SubSeq(violated, 1, needed)
                       \o SubSeq(violated, needed + 1, Len(violated))
        ELSE IF ~allow_relaxation THEN compliant
        ELSE compliant \o violated

\* sort key of the compliant list: (-alignment_score, -combined_score)
CompliantKey(x) == <<-x.alignment_score, -x.combined_score>>

\* sort key of the violated list: (len(hard_failures), -alignment_score, -combined_score)
ViolatedKey(x) == <<Len(x.hard_failures), -x.alignment_score, -x.combined_score>>

\* the compliant and the violated list of the evaluated variants, each sorted
AlignedLists(evaluated) ==
    CHOOSE out \in
        {<<SortedBy(compliant, [i \in DOMAIN compliant |-> CompliantKey(compliant[i])]),
           SortedBy(violated, [i \in DOMAIN violated |-> ViolatedKey(violated[i])])>> :
         compliant \in {SeqFilter(evaluated, [i \in DOMAIN evaluated |->
                                                 evaluated[i].hard_failures = <<>>])},
         violated \in {SeqFilter(evaluated, [i \in DOMAIN evaluated |->
                                                evaluated[i].hard_failures # <<>>])}} : TRUE

enforce_alignment_on_ranked_variants(ranked_variants, preferences, rules, min_results, allow_relaxation) ==
    IF ranked_variants = <<>> THEN <<>>
    ELSE CHOOSE out \in
            {AlignmentResult(lists[1], lists[2], min_results, allow_relaxation) :
             lists \in {AlignedLists(evaluated) :
                        evaluated \in {[i \in DOMAIN ranked_variants |->
                                          AlignVariant(ranked_variants[i], rules,
                                                       preferences)]}}} : TRUE

(***************************************************************************)
(* diversity_reranker.py: brand controls                                   *)
(***************************************************************************)
\* car.get('brand', 'Unknown')
BrandOrUnknown(car) == IF car.brand = None THEN "Unknown" ELSE car.brand

\* `if brand and brand in blacklisted: continue`
FilterDropsBlacklisted(brand, blacklisted) == brand # "" /\ brand \in blacklisted

\* a strict branch whose membership test is inverted
FilterDropsNonPreferred_Inverted(brand, preferred) == preferred # {} /\ brand \in preferred

\* `if preferred and brand not in preferred: continue` of the strict branch
FilterDropsNonPreferred(brand, preferred) == preferred # {} /\ brand \notin preferred

\* whether _apply_brand_filters keeps a variant
BrandFilterKeeps(variant, controls) ==
    LET preferred == _to_normalized_set(controls.preferred_brands)
        blacklisted == _to_normalized_set(controls.blacklisted_brands)
        brand == normalize_brand(BrandOrUnknown(variant.car))
    IN  IF FilterDropsBlacklisted(brand, blacklisted) THEN FALSE
        ELSE IF controls.brand_mode = "strict"
             THEN ~FilterDropsNonPreferred(brand, preferred)
        ELSE TRUE

BrandFilterRescore(variant, controls) ==
    LET preferred == _to_normalized_set(controls.preferred_brands)
        brand == normalize_brand(BrandOrUnknown(variant.car))
        factor == IF controls.brand_mode = "strict" \/ preferred = {} THEN 100
                  ELSE IF brand \in preferred THEN 135
                  ELSE IF controls.brand_mode = "preferred" THEN 92
                  ELSE 100
    IN  [variant EXCEPT !.score = (@ * factor) \div 100,
                        !.combined_score = (@ * factor) \div 100]

_apply_brand_filters(scored_variants, controls) ==
    LET rescored == [i \in DOMAIN scored_variants |->
                        BrandFilterRescore(scored_variants[i], controls)]
    IN  SeqFilter(rescored, [i \in DOMAIN scored_variants |->
                                BrandFilterKeeps(scored_variants[i], controls)])

(***************************************************************************)
(* dynamic_scoring_config.py and diversity_reranker.py: the diversity      *)
(* engine.  A variant is identified by its id: the rows of the catalog     *)
(* have distinct names, so the id is the code's _variant_key.              *)
(***************************************************************************)
RECURSIVE Flatten(_)
\* the concatenation of a sequence of sequences
Flatten(seqs) == IF seqs = <<>> THEN <<>> ELSE Head(seqs) \o Flatten(Tail(seqs))

\* seq[:n]
Take(seq, n) == SubSeq(seq, 1, Min2(Len(seq), Max2(0, n)))

\* seq[n:]
Drop(seq, n) == SubSeq(seq, Min2(Len(seq), Max2(0, n)) + 1, Len(seq))

\* the brand limits DynamicScoringWeights.from_user_preferences derives from the controls
from_user_preferences(preferences, controls) ==
    LET by_mode ==
            IF controls.diversity_mode = "maximum_diversity"
            THEN [max_variants_per_brand |-> 1, brand_penalty_factor |-> 20]
            ELSE IF controls.diversity_mode = "maximum_relevance"
            THEN [max_variants_per_brand |-> 5, brand_penalty_factor |-> 90]
            ELSE [max_variants_per_brand |-> 2, brand_penalty_factor |-> 70]
    IN  IF controls.brand_mode = "strict"
        THEN [max_variants_per_brand |-> 10, brand_penalty_factor |-> 100]
        ELSE by_mode

\* str(car.get('brand', 'Unknown')).lower()
_extract_brand(variant) == lower(BrandOrUnknown(variant.car))

\* sorted(..., key=combined_score, reverse=True)
SortedByScore(seq) == SortedBy(seq, [i \in DOMAIN seq |-> <<-seq[i].combined_score>>])

RECURSIVE ApplyPenalty(_, _, _)
\* score * factor ** times, with factor in percent
ApplyPenalty(score, factor, times) ==
    IF times <= 0 THEN score ELSE ApplyPenalty((score * factor) \div 100, factor, times - 1)

\* the soft-penalty branch of DiversityReranker.apply_brand_diversity_penalty
apply_brand_diversity_penalty(scored_variants, max_per_brand, penalty_factor) ==
    LET total_variants == Len(scored_variants)
        top_window == Max2(5, (total_variants * 15) \div 100)
        Count(idx) == Cardinality({j \in 1..idx : _extract_brand(scored_variants[j])
                                                      = _extract_brand(scored_variants[idx])})
        Eff(idx) == IF idx - 1 < top_window THEN Min2(90, penalty_factor + 20)
                    ELSE penalty_factor
        Penalized(idx) ==
            IF Count(idx) > max_per_brand
            THEN [scored_variants[idx] EXCEPT
                     !.score = ApplyPenalty(@, Eff(idx), Count(idx) - max_per_brand),
                     !.combined_score = ApplyPenalty(@, Eff(idx), Count(idx) - max_per_brand)]
            ELSE scored_variants[idx]
    IN  SortedByScore([idx \in DOMAIN scored_variants |-> Penalized(idx)])

\* the keys of variants_by_brand, in insertion order
BrandOrder(variants) ==
    LET firsts == SeqFilter(variants, [i \in DOMAIN variants |->
                     \A j \in 1..(i - 1) : _extract_brand(variants[j]) # _extract_brand(variants[i])])
    IN  [i \in DOMAIN firsts |-> _extract_brand(firsts[i])]

\* variants_by_brand[brand], sorted by score
variants_by_brand(variants, brand) ==
    SortedByScore(SeqFilter(variants, [i \in DOMAIN variants |->
                                          _extract_brand(variants[i]) = brand]))

\* the groups of variants_by_brand, in insertion order of their brands
BrandGroups(variants) ==
    [b \in DOMAIN BrandOrder(variants) |-> variants_by_brand(variants, BrandOrder(variants)[b])]

\* the number of variants of a brand in a list
BrandCount(selected, brand) ==
    Cardinality({i \in DOMAIN selected : _extract_brand(selected[i]) = brand})

_maximize_diversity_in_set(variants, max_per_brand) ==
    LET groups == BrandGroups(variants)
    IN  Flatten([b \in DOMAIN groups |-> Take(groups[b], max_per_brand)])
        \o Flatten([b \in DOMAIN groups |-> Drop(groups[b], max_per_brand)])

RECURSIVE RoundRobin(_, _, _)
\* rounds `round`..`last` of the round-robin loop: a round takes the best unselected
\* variant of every brand that still has one
RoundRobin(groups, round, last) ==
    IF round > last THEN <<>>
    ELSE Flatten([b \in DOMAIN groups |->
                     IF Len(groups[b]) >= round THEN <<groups[b][round]>> ELSE <<>>])
         \o RoundRobin(groups, round + 1, last)

_remove_duplicate_brands(selected, groups, top_k) ==
    LET duplicates == \E i, j \in DOMAIN selected :
                          i # j /\ _extract_brand(selected[i]) = _extract_brand(selected[j])
        new_selected == SeqFilter(selected, [i \in DOMAIN selected |->
                            \A j \in 1..(i - 1) :
                                _extract_brand(selected[j]) # _extract_brand(selected[i])])
        others == Flatten([b \in DOMAIN groups |->
                              IF BrandCount(new_selected, _extract_brand(groups[b][1])) = 0
                              THEN <<groups[b][1]>> ELSE <<>>])
    IN  IF ~duplicates THEN selected
        ELSE Take(new_selected \o Take(others, top_k - Len(new_selected)), top_k)

RECURSIVE FillLoop(_, _, _, _, _)
\* the loop of _fill_with_diverse over the sorted remaining variants
FillLoop(selected, remaining, top_k, brand_counts, max_per_brand) ==
    IF remaining = <<>> \/ Len(selected) >= top_k THEN selected
    ELSE LET brand == _extract_brand(Head(remaining))
         IN  IF brand_counts[brand] < max_per_brand
             THEN FillLoop(Append(selected, Head(remaining)), Tail(remaining), top_k,
                           [brand_counts EXCEPT ![brand] = @ + 1], max_per_brand)
             ELSE FillLoop(selected, Tail(remaining), top_k, brand_counts, max_per_brand)

_fill_with_diverse(selected, remaining, top_k, brand_counts, max_per_brand) ==
    FillLoop(selected, SortedByScore(remaining), top_k, brand_counts, max_per_brand)

\* RobustDiversityEnforcer.enforce_diversity
enforce_diversity(variants, top_k, max_per_brand) ==
    IF Len(variants) = 0 THEN <<>>
    ELSE IF Len(variants) <= top_k THEN _maximize_diversity_in_set(variants, max_per_brand)
    ELSE CHOOSE out \in
            {LET deduplicated == IF max_per_brand = 1
                                 THEN _remove_duplicate_brands(selected, groups, top_k)
                                 ELSE selected
                 remaining == SeqFilter(variants, [i \in DOMAIN variants |->
                                  \A j \in DOMAIN selected : selected[j].id # variants[i].id])
                 brand_counts == [brand \in {_extract_brand(variants[i]) : i \in DOMAIN variants}
                                     |-> BrandCount(selected, brand)]
             IN  Take(IF Len(deduplicated) < top_k
                      THEN _fill_with_diverse(deduplicated, remaining, top_k, brand_counts,
                                              max_per_brand)
                      ELSE deduplicated, top_k) :
             groups \in {BrandGroups(variants)},
             selected \in {Take(RoundRobin(BrandGroups(variants), 1,
                                           Min2(max_per_brand, 2 * top_k + 1)), top_k)}} : TRUE

\* the price-preference filter of _apply_user_controls; budget shares are in percent
_apply_user_controls(final_variants, controls, preferences) ==
    LET min_budget == preferences.budget[1]
        max_budget == preferences.budget[2]
        budget_span == max_budget - min_budget
        Price(v, default) == IF v.car.numeric_price = NoNumber THEN default
                             ELSE v.car.numeric_price
        Keeps(v) ==
            CASE controls.price_preference = "lower" ->
                    Price(v, max_budget) * 100 <= min_budget * 100 + budget_span * 40
              [] controls.price_preference = "higher" ->
                    Price(v, 0) * 100 >= min_budget * 100 + budget_span * 60
              [] controls.price_preference = "mid" ->
                    /\ min_budget * 100 + budget_span * 30 <= Price(v, 0) * 100
                    /\ Price(v, 0) * 100 <= min_budget * 100 + budget_span * 70
              [] OTHER -> TRUE
    IN  SeqFilter(final_variants, [i \in DOMAIN final_variants |-> Keeps(final_variants[i])])

\* the per-brand limit of the final enforcement
EffectiveMaxPerBrand(controls, max_per_brand, pool_size) ==
    IF controls.diversity_mode = "maximum_diversity"
    THEN (IF pool_size < 12 THEN Max2(2, max_per_brand) ELSE 1)
    ELSE max_per_brand

\* the "at least 5 results" refill from the filtered candidates
SafetyRefill(final_variants, scored_variants) ==
    IF Len(final_variants) < 5 /\ Len(scored_variants) >= 5
    THEN LET remaining == SeqFilter(scored_variants, [i \in DOMAIN scored_variants |->
                              \A j \in DOMAIN final_variants :
                                  final_variants[j].id # scored_variants[i].id])
         IN  final_variants \o Take(SortedByScore(remaining), 5 - Len(final_variants))
    ELSE final_variants

\* steps 4 and 5 of enhance_scoring_with_diversity and its refill; the refill draws from
\* the filtered candidates with their penalized scores, in score order
DiversityFinal(penalized, preferences, controls, max_per_brand) ==
    CHOOSE out \in
        {Take(SafetyRefill(enforced, penalized), 5) :
         enforced \in
            {enforce_diversity(controlled, 5,
                               EffectiveMaxPerBrand(controls, max_per_brand, Len(controlled))) :
             controlled \in {_apply_user_controls(penalized, controls, preferences)}}} : TRUE

\* MMR reranking returns its input for 30 candidates or fewer (rerank_top_k = min(30, len)),
\* which covers every list over the catalog
enhance_scoring_with_diversity(scored_variants, preferences, controls) ==
    CHOOSE out \in
        {DiversityFinal(penalized, preferences, controls,
                        from_user_preferences(preferences, controls).max_variants_per_brand) :
         penalized \in
            {apply_brand_diversity_penalty(
                 filtered, from_user_preferences(preferences, controls).max_variants_per_brand,
                 from_user_preferences(preferences, controls).brand_penalty_factor) :
             filtered \in {_apply_brand_filters(scored_variants, controls)}}} : TRUE

(***************************************************************************)
(* user_control_system.py: EdgeCaseHandler.  The budget bound of 1,500,000 *)
(* is 150 in the price units of the catalog.                               *)
(***************************************************************************)
LuxuryBudgetLimit == 150

\* the conflict luxury_budget_conflict of detect_conflicts
luxury_budget_conflict(preferences, controls) ==
    /\ \E f \in controls.must_have_features :
          lower(f) \in {"sunroof", "panoramic", "leather", "ventilated", "premium"}
    /\ preferences.budget[2] < LuxuryBudgetLimit

\* the controls and the preferences resolve_conflicts returns
resolve_conflicts(preferences, controls) ==
    LET conflict == luxury_budget_conflict(preferences, controls)
        luxury == {f \in controls.must_have_features :
                      \E lux \in {"sunroof", "panoramic", "leather", "ventilated"} :
                          Contains(lower(f), lux)}
    IN  [preferences |->
            IF conflict /\ controls.conflict_resolution = "prioritize_features"
            THEN [preferences EXCEPT !.budget = <<@[1], (@[2] * 120) \div 100>>]
            ELSE preferences,
         controls |->
            IF conflict /\ controls.conflict_resolution = "prioritize_budget"
            THEN [controls EXCEPT !.must_have_features = @ \ luxury,
                                  !.nice_to_have_features = @ \cup luxury]
            ELSE controls]

(***************************************************************************)
(* Strictness of a dimension: priorities and the exploration rate are in   *)
(* percent, a strictness is in units of 1/10000.                           *)
(***************************************************************************)
\* exploration_rate clamped to [0, 0.5] and divided by 0.5, in percent
ExplorationNorm(controls) == Min2(50, Max2(0, controls.exploration_rate)) * 2

\* the priority of a dimension; the sliders count only when exploration_rate_set
SliderPriority(controls, key) ==
    IF controls.exploration_rate_set
    THEN Min2(100, Max2(0, Priority(controls, key))) ELSE 50

\* strictness with the weights a and b = 100 - a of the caller
Strictness(controls, key, a) ==
    Min2(10000, Max2(0, a * SliderPriority(controls, key)
                        + (100 - a) * (100 - ExplorationNorm(controls))))

\* RecommendationPipeline._identify_must_haves
_identify_must_haves(preferences, controls) ==
    {"budget"}
    \cup (IF preferences.transmission \notin {None, "", "Any"} THEN {"transmission"} ELSE {})
    \cup (IF preferences.fuel_type \notin {None, "", "Any"} THEN {"fuel_type"} ELSE {})
    \cup (IF preferences.seating \notin {NoNumber, 0} /\ preferences.seating > 5
          THEN {"seating"} ELSE {})
    \cup {key \in {"fuel_type", "body_type", "transmission", "seating", "features",
                   "performance"} : Strictness(controls, key, 68) >= 8000}

(***************************************************************************)
(* enhanced_filtering.py: EnhancedFilter, the filter of Stage 2.  The      *)
(* model's preferences have no `brand` and no `performance` entry, so the  *)
(* checks 7 and 8 of filter_variants do not apply.                         *)
(***************************************************************************)
FuelMappings ==
    [petrol |-> {"petrol", "gasoline"}, diesel |-> {"diesel"},
     cng |-> {"cng", "compressed natural gas"}, electric |-> {"electric", "ev", "battery"}]

BodyMappings ==
    [suv |-> {"suv", "sport utility vehicle", "compact suv", "midsize suv"},
     sedan |-> {"sedan", "saloon"}, hatchback |-> {"hatchback", "hatch"},
     muv |-> {"muv", "multi utility vehicle", "mpv"}]

TransmissionMappings ==
    [automatic |-> {"automatic", "amt", "cvt", "dct", "ivt"}, manual |-> {"manual", "mt"}]

FeatureMappings ==
    [sunroof |-> {"sunroof", "panoramic", "moonroof"}, leather |-> {"leather", "leatherette"},
     navigation |-> {"navigation", "gps", "nav"},
     camera |-> {"camera", "rear view", "360", "parking"},
     cruise |-> {"cruise control", "adaptive cruise"},
     keyless |-> {"keyless", "smart key", "push button"},
     wireless |-> {"wireless", "wireless charging"}, android |-> {"android auto", "android"},
     apple |-> {"apple carplay", "carplay", "apple"}]

\* _fuzzy_fuel_match, _fuzzy_body_match, _fuzzy_transmission_match: the mapping of the
\* key found in the preference decides
_fuzzy_match(pref, actual, mappings) ==
    LET keys == {k \in DOMAIN mappings : Contains(pref, k)}
    IN  keys # {} /\ \E alias \in mappings[CHOOSE k \in keys : TRUE] : Contains(actual, alias)

\* the match test of the checks 2 to 4 of filter_variants, on lower-cased texts
TextMatch(pref_value, row_value, mappings) ==
    \/ Contains(lower(row_value), lower(pref_value))
    \/ Contains(lower(pref_value), lower(row_value))
    \/ _fuzzy_match(lower(pref_value), lower(row_value), mappings)

\* _check_features: the required features found in the texts of the row
_check_features(row, required_features) ==
    {f \in Range(required_features) :
        \/ InBlob(lower(f), _flatten_car_text(row))
        \/ LET keys == {k \in DOMAIN FeatureMappings : Contains(lower(f), k)}
           IN  keys # {} /\ \E alias \in FeatureMappings[CHOOSE k \in keys : TRUE] :
                                InBlob(alias, _flatten_car_text(row))}

\* the dimensions filter_variants treats as hard
FilterMustHaves(context) ==
    context.must_have_preferences
    \cup {key \in {"budget", "fuel_type", "body_type", "transmission", "seating", "features"} :
             Strictness(context.user_control_config, key, 70) >= 7800}

\* budget_tolerance of filter_variants, in units of 1/10000
FilterBudgetTolerance(controls) ==
    Min2(13500, Max2(10300, 10300 + 26 * ExplorationNorm(controls)
                                  + 14 * (100 - SliderPriority(controls, "budget"))))

\* the dimensions a row mismatches: <<dimension, severity>> with the severity the soft
\* violation gets
RowMismatches(row, preferences, context) ==
    LET controls == context.user_control_config
        High(key) == IF Strictness(controls, key, 70) >= 7000 THEN "high" ELSE "medium"
        Medium(key) == IF Strictness(controls, key, 70) >= 6000 THEN "medium" ELSE "low"
        Text(key, mappings) ==
            preferences[key] # "Any" /\ ~TextMatch(preferences[key], row[key], mappings)
    IN  (IF row.numeric_price # NoNumber /\ row.numeric_price > preferences.budget[2]
         THEN {<<"budget", "medium">>} ELSE {})
        \cup (IF Text("fuel_type", FuelMappings)
              THEN {<<"fuel_type", Medium("fuel_type")>>} ELSE {})
        \cup (IF Text("body_type", BodyMappings)
              THEN {<<"body_type", Medium("body_type")>>} ELSE {})
        \cup (IF Text("transmission", TransmissionMappings)
              THEN {<<"transmission", High("transmission")>>} ELSE {})
        \cup (IF row.seating # NoNumber /\ row.seating < preferences.seating
              THEN {<<"seating", High("seating")>>} ELSE {})
        \cup (IF preferences.features # <<>>
                 /\ Range(preferences.features) \ _check_features(row, preferences.features) # {}
              THEN {<<"features", High("features")>>} ELSE {})

\* whether filter_variants removes a row
FilterRemoves(row, preferences, context) ==
    LET must_have_prefs == FilterMustHaves(context)
        mismatched == {m[1] : m \in RowMismatches(row, preferences, context)}
    IN  \/ /\ row.numeric_price # NoNumber
           /\ IF "budget" \in must_have_prefs
              THEN row.numeric_price > preferences.budget[2]
              ELSE row.numeric_price * 10000 >
                       preferences.budget[2] * FilterBudgetTolerance(context.user_control_config)
        \/ (mismatched \cap {"fuel_type", "body_type", "transmission", "seating"})
               \cap must_have_prefs # {}
        \/ /\ preferences.features # <<>>
           /\ context.must_have_features \ _check_features(row, preferences.features) # {}

\* filter_variants: the kept rows and the soft violations of each
filter_variants(preferences, context) ==
    [kept |-> {c \in CarIds : ~FilterRemoves(Catalog[c], preferences, context)},
     soft_violations |->
        [c \in CarIds |-> RowMismatches(Catalog[c], preferences, context)]]

(***************************************************************************)
(* The knowledge graph of a run, as far as the stages read it: the User    *)
(* node, the Preference nodes (by key; a per-feature node has the key      *)
(* "feature_" and the feature), the Variant nodes (by catalog row), the    *)
(* TradeOff nodes (counted) and the VIOLATES, HAS_FEATURE and REJECTED     *)
(* edges.                                                                  *)
(***************************************************************************)
EmptyGraph ==
    [user |-> FALSE, preferences |-> {}, variants |-> {}, tradeoffs |-> 0,
     violates |-> {}, has_feature |-> {}, rejected |-> {}]

\* the elements of a set of integers in ascending order
Ascending(S) ==
    [i \in 1..Cardinality(S) |-> CHOOSE x \in S : Cardinality({y \in S : y < x}) = i - 1]

\* the id of the per-feature Preference node of a feature
FeatureNode(feature) == "feature_" \o feature

\* PreferenceExtractionAgent.execute: the User node and a Preference node for every
\* preference that is not None, 'Any' or an empty list, and for every feature
PreferenceExtractionAgent(graph, context) ==
    LET preferences == context.extracted_preferences
    IN  [graph EXCEPT
            !.user = TRUE,
            !.preferences =
                {"budget"}
                \cup {key \in {"fuel_type", "body_type", "transmission"} :
                         preferences[key] \notin {None, "Any"}}
                \cup (IF preferences.seating # NoNumber THEN {"seating"} ELSE {})
                \cup (IF preferences.features # <<>> THEN {"features"} ELSE {})
                \cup {FeatureNode(f) : f \in Range(preferences.features)}]

\* the VIOLATES edges: one for every soft violation of a kept row whose Preference node
\* exists, with the severity of the violation
ViolatesEdges(filtered, graph) ==
    UNION {{<<c, m[1], m[2]>> : m \in {n \in filtered.soft_violations[c] :
                                          n[1] \in graph.preferences}} : c \in filtered.kept}

\* VariantPruningAgent.execute: a Variant node for every row the filter keeps, and the
\* VIOLATES edges
VariantPruningAgent(graph, context) ==
    CHOOSE out \in
        {[graph EXCEPT !.variants = filtered.kept,
                       !.violates = ViolatesEdges(filtered, graph)] :
         filtered \in {filter_variants(context.extracted_preferences, context)}} : TRUE

(***************************************************************************)
(* agents/car_matchmaker_agent.py.  Scores are in units of 1/1000.         *)
(***************************************************************************)
\* the budget bound (1,500,000) up to which the matchmaker tolerates 12% over budget
SegmentBudgetLimit == 150

\* PreferenceExtractionAgent._get_preference_weight
_get_preference_weight(controls, key) ==
    LET base == CASE key = "budget" -> 10 [] key = "fuel_type" -> 8 [] key = "body_type" -> 7
                  [] key = "transmission" -> 6 [] key = "seating" -> 5 [] OTHER -> 3
        scaled == base * (550 + (1350 * SliderPriority(controls, key)) \div 100)
    IN  IF Strictness(controls, key, 68) >= 8000 THEN (scaled * 112) \div 100 ELSE scaled

\* _multiplier of _evaluate_variant_match
_multiplier(controls, key) == 550 + (1350 * Strictness(controls, key, 68)) \div 10000

\* the quality, in percent, with which a Variant node matches the Preference node of a
\* key; 0 is no match.  No branch of _evaluate_variant_match handles the key `feature`,
\* so a per-feature node never matches
MatchQuality(row, preferences, key) ==
    LET price == row.numeric_price
        min_b == preferences.budget[1]
        max_b == preferences.budget[2]
        budget_tolerance == IF max_b <= SegmentBudgetLimit THEN 112 ELSE 115
        Text(mappings) ==
            IF preferences[key] = "Any" THEN 0
            ELSE IF Contains(lower(row[key]), lower(preferences[key]))
                    \/ Contains(lower(preferences[key]), lower(row[key])) THEN 100
            ELSE IF _fuzzy_match(lower(preferences[key]), lower(row[key]), mappings) THEN 80
            ELSE 0
    IN  CASE key = "budget" ->
                IF price \in {NoNumber, 0} THEN 0
                ELSE IF min_b <= price /\ price <= max_b THEN 100
                ELSE IF price * 100 <= max_b * budget_tolerance
                     THEN 70 - ((price - max_b) * 50) \div max_b
                ELSE 0
          [] key = "fuel_type" -> Text(FuelMappings)
          [] key = "body_type" -> Text(BodyMappings)
          [] key = "transmission" -> Text(TransmissionMappings)
          [] key = "seating" ->
                IF row.seating \notin {NoNumber, 0} /\ row.seating >= preferences.seating
                THEN 100 ELSE 0
          [] key = "features" ->
                (100 * Cardinality(_check_features(row, preferences.features)))
                    \div Max2(1, Len(preferences.features))
          [] OTHER -> 0

\* the Preference nodes a Variant node matches
MatchedPreferences(c, graph, preferences) ==
    {key \in graph.preferences : MatchQuality(Catalog[c], preferences, key) > 0}

RECURSIVE SumOver(_, _)
\* the sum of f over a set
SumOver(S, f) ==
    IF S = {} THEN 0
    ELSE LET x == CHOOSE y \in S : TRUE IN f[x] + SumOver(S \ {x}, f)

\* total_path_score of score_variant_by_paths when Stage 3 evaluates a variant: the
\* variant has VIOLATES edges only (-10, -5, -2.5 by severity)
PathScore(c, graph) ==
    LET edges == {e \in graph.violates : e[1] = c}
    IN  SumOver(edges, [e \in edges |->
                           CASE e[3] = "high" -> -10000 [] e[3] = "medium" -> -5000
                             [] OTHER -> -2500])

\* match_score of _evaluate_variant_match
MatchScore(c, graph, context) ==
    LET controls == context.user_control_config
        preferences == context.extracted_preferences
        matched == MatchedPreferences(c, graph, preferences)
    IN  (PathScore(c, graph) * 3) \div 10
        + SumOver(matched, [key \in matched |->
              (((_get_preference_weight(controls, key)
                    * MatchQuality(Catalog[c], preferences, key)) \div 100)
                   * _multiplier(controls, key)) \div 1000])

\* CarMatchmakerAgent.execute: the candidates, in the order of the Variant nodes, and the
\* HAS_FEATURE edges of the candidates
CarMatchmakerAgent(graph, context) ==
    IF ~graph.user \/ graph.preferences = {}
    THEN [candidate_variants |-> <<>>, graph |-> graph]
    ELSE CHOOSE out \in
            {[candidate_variants |-> Ascending(candidates),
              graph |-> [graph EXCEPT !.has_feature =
                            UNION {{<<c, key>> : key \in MatchedPreferences(
                                       c, graph, context.extracted_preferences)} :
                                   c \in candidates}]] :
             candidates \in {{c \in graph.variants : MatchScore(c, graph, context) > 0}}} : TRUE

(***************************************************************************)
(* agents/tradeoff_negotiator_agent.py, agents/context_awareness_agent.py  *)
(***************************************************************************)
\* the number of trade-offs _detect_tradeoffs finds: the preferences have no `max_budget`
\* and no `performance` entry, which leaves the rule "Narrow Candidate Pool"
_detect_tradeoffs(preferences, candidate_count) ==
    IF candidate_count # 0 /\ candidate_count < 10 THEN 1 ELSE 0

\* the row a history entry names: the Variant node of that name
HistoryVariant(graph, variant_name) ==
    {c \in graph.variants : Catalog[c].variant = variant_name}

\* ContextAwarenessAgent.execute on a history of rejections: REJECTED edges, the rejected
\* variants, and the candidates without them
ContextAwarenessAgent(graph, context) ==
    IF ~graph.user
    THEN [rejected_variants |-> <<>>, candidate_variants |-> context.candidate_variants,
          graph |-> graph]
    ELSE LET history == context.conversation_history
             named == UNION {HistoryVariant(graph, history[i]) : i \in DOMAIN history}
             rejected == named \ graph.rejected
         IN  [rejected_variants |-> Ascending(rejected),
              candidate_variants |->
                 SeqFilter(context.candidate_variants,
                           [i \in DOMAIN context.candidate_variants |->
                               context.candidate_variants[i] \notin rejected]),
              graph |-> [graph EXCEPT !.rejected = @ \cup rejected]]

(***************************************************************************)
(* agents/validation_sanity_agent.py                                       *)
(***************************************************************************)
\* _feature_present_in_blob
_feature_present_in_blob(feature, blob) == _feature_present(normalize_text(feature), blob)

\* _check_hard_constraints: the violations of a Variant node
_check_hard_constraints(c, graph, context) ==
    LET props == Catalog[c]
        preferences == context.extracted_preferences
        controls == context.user_control_config
        must_have_prefs == context.must_have_preferences
        price == props.numeric_price
        configured_tolerance == Max2(2, Min2(50, controls.price_tolerance))
        allowed_over ==
            IF Priority(controls, "budget") >= 80 \/ "budget" \in must_have_prefs
            THEN Min2(configured_tolerance, 12)
            ELSE Min2(Max2(8, configured_tolerance), 30)
        variant_brand == normalize_brand(props.brand)
        preferred_brands == _to_normalized_set(controls.preferred_brands)
        blacklisted_brands == _to_normalized_set(controls.blacklisted_brands)
        Given(key) == preferences[key] \notin {None, "", "Any"}
        Apart(key) == /\ ~Contains(lower(props[key]), lower(preferences[key]))
                      /\ ~Contains(lower(preferences[key]), lower(props[key]))
    IN  (IF price \notin {NoNumber, 0}
            /\ price * 100 > preferences.budget[2] * (100 + allowed_over)
         THEN {"budget"} ELSE {})
        \cup (IF variant_brand # "" /\ variant_brand \in blacklisted_brands
              THEN {"brand_blacklisted"} ELSE {})
        \cup (IF controls.brand_mode = "strict" /\ preferred_brands # {}
                 /\ variant_brand \notin preferred_brands
              THEN {"brand_outside_strict_list"} ELSE {})
        \cup (IF "transmission" \in must_have_prefs /\ Given("transmission")
                 /\ Apart("transmission")
                 /\ \/ /\ Contains(lower(preferences.transmission), "manual")
                       /\ Contains(lower(props.transmission), "automatic")
                    \/ /\ Contains(lower(preferences.transmission), "automatic")
                       /\ Contains(lower(props.transmission), "manual")
              THEN {"transmission"} ELSE {})
        \cup (IF "fuel_type" \in must_have_prefs /\ Given("fuel_type") /\ Apart("fuel_type")
                 /\ ~(/\ Contains(lower(props.fuel_type), "hybrid")
                      /\ lower(preferences.fuel_type) \in {"petrol", "diesel"})
              THEN {"fuel_type"} ELSE {})
        \cup (IF ("body_type" \in must_have_prefs \/ Priority(controls, "body_type") >= 85)
                 /\ Given("body_type") /\ Apart("body_type")
              THEN {"body_type"} ELSE {})
        \cup (IF "seating" \in must_have_prefs /\ props.seating \notin {NoNumber, 0}
                 /\ props.seating < preferences.seating
              THEN {"seating"} ELSE {})
        \cup (IF \E feature \in context.must_have_features :
                    /\ ~(/\ FeatureNode(feature) \in graph.preferences
                         /\ <<c, FeatureNode(feature)>> \in graph.has_feature)
                    /\ ~_feature_present_in_blob(feature, _flatten_car_text(props))
              THEN {"must_have_feature"} ELSE {})

\* whether the validation loop removes a ranked variant: its Variant node is missing or
\* has a violation
ValidationRemoves(variant, graph, context) ==
    \/ variant.id \notin graph.variants
    \/ _check_hard_constraints(variant.id, graph, context) # {}

\* ValidationAndSanityAgent.execute
ValidationAndSanityAgent(graph, context) ==
    LET ranked_variants == context.ranked_variants
        removes == [i \in DOMAIN ranked_variants |->
                       ValidationRemoves(ranked_variants[i], graph, context)]
    IN  [validated_variants |->
            SeqFilter(ranked_variants, [i \in DOMAIN ranked_variants |-> ~removes[i]]),
         removed_variants |->
            SeqFilter(ranked_variants, removes)]

(***************************************************************************)
(* agents/advanced_reasoning_agent.py, agents/explanation_agent.py         *)
(***************************************************************************)
Reverse(seq) == [i \in DOMAIN seq |-> seq[Len(seq) + 1 - i]]

\* the orders a re-scoring step may leave a list in: the consensus and hybrid scores are
\* not modelled, the order they induce is chosen among these
Reorderings(seq) == {seq, Reverse(seq)}

\* the variants AdvancedReasoningAgent.execute evaluates: the validated variants, or the
\* ranked ones when there is none, that have a Variant node
AdvancedInput(graph, context) ==
    LET source == IF context.validated_variants # <<>> THEN context.validated_variants
                  ELSE context.ranked_variants
    IN  SeqFilter(source, [i \in DOMAIN source |-> source[i].id \in graph.variants])

\* ExplanationAgent.execute: a context for each of the first five validated variants that
\* has a Variant node
ExplanationAgent(graph, context) ==
    LET top == Take(context.validated_variants, 5)
        explained == SeqFilter(top, [i \in DOMAIN top |-> top[i].id \in graph.variants])
    IN  [i \in DOMAIN explained |-> explained[i].id]

(***************************************************************************)
(* Inputs of the model.                                                    *)
(***************************************************************************)
DefaultPriorities ==
    [k \in {"budget", "fuel_type", "body_type", "transmission", "seating", "features",
            "performance"} |-> 50]

Controls(mode, preferred, blacklisted, must, priorities) ==
    [brand_mode |-> mode, preferred_brands |-> preferred, blacklisted_brands |-> blacklisted,
     must_have_features |-> must, nice_to_have_features |-> {"Wireless-Charging"},
     price_tolerance |-> 15, scoring_priorities |-> priorities,
     price_preference |-> None, diversity_mode |-> "balanced",
     conflict_resolution |-> "prioritize_budget",
     exploration_rate |-> 10, exploration_rate_set |-> FALSE]

BrandModes == {"any", "preferred", "strict", "blacklist"}
PreferredChoices == {{}, {"Honda"}, {" TATA ", "--"}}
BlacklistChoices == {{}, {"honda", "Maruti", "!!"}}

ControlChoices ==
    {Controls(m, p, b, f, q) : m \in BrandModes, p \in PreferredChoices,
                               b \in BlacklistChoices,
                               f \in {{}, {"Sunroof"}, {"SUNROOF", "ABS"}},
                               q \in {DefaultPriorities,
                                      [DefaultPriorities EXCEPT !["features"] = 80]}}

PreferenceChoices ==
    {[budget |-> <<80, 100>>, fuel_type |-> "Any", body_type |-> "Any",
      transmission |-> "Any", seating |-> 5, features |-> <<>>],
     [budget |-> <<80, 100>>, fuel_type |-> "Petrol", body_type |-> "SUV",
      transmission |-> "Automatic", seating |-> 5, features |-> <<"ABS">>]}

\* ranked lists: the rows of a set of cars in descending order of base score
RECURSIVE RankedList(_, _)
RankedList(cars, from) ==
    IF from > Len(Catalog) THEN <<>>
    ELSE (IF from \in cars THEN <<RankedVariant(from)>> ELSE <<>>)
         \o RankedList(cars, from + 1)

Pools == {RankedList(cars, 1) : cars \in {S \in SUBSET CarIds : Cardinality(S) <= MaxPool}}

\* the requests made of the pipeline
RequestPreferences ==
    {[budget |-> <<80, 150>>, fuel_type |-> "Petrol", body_type |-> "Any",
      transmission |-> "Any", seating |-> 5, features |-> <<>>],
     [budget |-> <<80, 100>>, fuel_type |-> "Any", body_type |-> "Any",
      transmission |-> "Any", seating |-> 5, features |-> <<>>],
     [budget |-> <<80, 150>>, fuel_type |-> "Diesel", body_type |-> "Any",
      transmission |-> "Manual", seating |-> 5, features |-> <<>>],
     [budget |-> <<80, 150>>, fuel_type |-> "Any", body_type |-> "SUV",
      transmission |-> "Any", seating |-> 5, features |-> <<"Sunroof">>]}

RequestControls ==
    {Controls(m, p, b, f, DefaultPriorities) :
        m \in BrandModes, p \in PreferredChoices, b \in BlacklistChoices,
        f \in {{}, {"Sunroof"}}}
    \cup {Controls("blacklist", {}, {"honda"}, {"Sunroof"}, DefaultPriorities)}

\* conversation histories: the variants the user rejected
Histories == {<<>>, <<"Kia Seltos HTK+">>}

\* the orders in which the external scoring function ranks the rows
ScoreOrders == {"catalog", "reverse"}

(***************************************************************************)
(* State.                                                                  *)
(***************************************************************************)
\* call: the alignment-engine call made: its function, inputs and result
\* pc: the position of the run of run_recommendation_pipeline
\* request: the arguments of the run
\* context, graph, ranked_variants, agent_trace: the locals of the run of those names
\* scoring: the calls of the external scoring function and the outcome of the last
\* raised: the step whose exception leaves the run, 0 when there is none
\* result: what the run returned
VARIABLES call, pc, request, context, graph, ranked_variants, agent_trace, scoring, raised, result, heap, runs, reads, adaptive_scoring, handlers

vars == <<call, pc, request, context, graph, ranked_variants, agent_trace, scoring, raised, result, heap, runs, reads, adaptive_scoring, handlers>>

\* the state of one run of the pipeline
run_vars == <<pc, request, context, graph, ranked_variants, agent_trace, scoring, raised, result>>

\* everything but `call`: a run, and the objects of concurrent runs on one pipeline object
pipeline_vars == <<run_vars, heap, runs, reads, adaptive_scoring, handlers>>

\* the two concurrent calls of run_recommendation_pipeline
Runs == {1, 2}

\* the reference of the AgentLightningBridge the constructor stores on the pipeline object
BridgeRef == 1

\* the request threads of the threaded server that handle POST /api/feedback
Handlers == {1, 2, 3}

\* the defaults of DynamicScoringWeights that feedback adjusts; weights are in percent
DefaultLearnedWeights == [diversity_weight |-> 30, max_variants_per_brand |-> 2]

NoCall == [fn |-> "none"]
\* a local of the run that is not assigned yet
Unset == [status |-> "none"]
NoScoring == [calls |-> 0, outcome |-> "none", returned |-> <<>>]

Init ==
    /\ call = NoCall
    /\ pc = "idle"
    /\ request = Unset
    /\ context = Unset
    /\ graph = EmptyGraph
    /\ ranked_variants = <<>>
    /\ agent_trace = <<>>
    /\ scoring = NoScoring
    /\ raised = 0
    /\ result = Unset
    /\ heap = <<[kind |-> "bridge", client_checked |-> FALSE, writers |-> {}]>>
    /\ runs = [r \in Runs |-> [pc |-> "idle", session_id |-> None, graph |-> 0,
                                context |-> 0]]
    /\ reads = {}
    /\ adaptive_scoring = [user_feedback_history |-> <<>>, lists |-> <<>>,
                           learned_weights |-> DefaultLearnedWeights]
    /\ handlers = [h \in Handlers |-> [pc |-> "idle", session_id |-> None, feedback |-> 0,
                                       list |-> 0]]

(***************************************************************************)
(* SpecAlign: calls of the pure functions of the alignment engine and of   *)
(* the brand filter, on every input of the model.                          *)
(***************************************************************************)
CallApplyBrandFilters ==
    /\ call = NoCall
    /\ \E scored \in Pools, controls \in ControlChoices :
          call' = [fn |-> "_apply_brand_filters",
                   scored_variants |-> scored,
                   controls |-> controls,
                   result |-> _apply_brand_filters(scored, controls)]
    /\ UNCHANGED pipeline_vars

CallEnforceAlignment ==
    /\ call = NoCall
    /\ \E ranked \in Pools, controls \in ControlChoices, preferences \in PreferenceChoices,
          must_have_preferences \in {{}, {"budget"}}, allow_relaxation \in BOOLEAN :
          LET rules == compile_alignment_rules(preferences, controls, must_have_preferences)
          IN  call' = [fn |-> "enforce_alignment_on_ranked_variants",
                       ranked_variants |-> ranked,
                       preferences |-> preferences,
                       controls |-> controls,
                       rules |-> rules,
                       allow_relaxation |-> allow_relaxation,
                       result |-> enforce_alignment_on_ranked_variants(
                                      ranked, preferences, rules, 5, allow_relaxation)]
    /\ UNCHANGED pipeline_vars

NextAlign == CallApplyBrandFilters \/ CallEnforceAlignment

SpecAlign == Init /\ [][NextAlign]_vars

(***************************************************************************)
(* The control-compliance evaluator's reading of a recommendation.         *)
(***************************************************************************)
\* str.strip() on the texts of the model
strip(value) ==
    CASE value = " TATA " -> "TATA"
      [] value = " HONDA " -> "HONDA"
      [] value = "  " -> ""
      [] OTHER -> value

\* str(car.get("brand", "")).strip().lower()
_variant_brand(car) == IF car.brand = None THEN "" ELSE lower(strip(car.brand))

\* {str(b).strip().lower() for b in brands if str(b).strip()}
EvalBrandSet(brands) == {lower(strip(b)) : b \in {w \in brands : strip(w) # ""}}

(***************************************************************************)
(* Spec: a run of RecommendationPipeline.run_recommendation_pipeline.      *)
(* Steps of the agent trace are in tenths: 10..80 are the agent stages 1   *)
(* to 8, 55 is the ScoringEngine entry (step 5.5), 57 the hybrid coalition *)
(* entry (step 5.7).                                                       *)
(***************************************************************************)
\* where the run goes when an agent stage raises, had the handler not re-raised
OnStageError_Continue(step) ==
    CASE step = 10 -> "stage2" [] step = 20 -> "stage3" [] step = 30 -> "stage4"
      [] step = 40 -> "stage5" [] step = 50 -> "scoring" [] step = 60 -> "stage7"
      [] step = 70 -> "stage8" [] OTHER -> "finish"

\* where the run goes when an agent stage raises: the handler re-raises
OnStageError(step) == "raised"

\* the except branch of a stage: trace the error and re-raise
StageFails(step) ==
    /\ agent_trace' = Append(agent_trace, <<step, "error">>)
    /\ raised' = step
    /\ pc' = OnStageError(step)
    /\ UNCHANGED <<adaptive_scoring, handlers, heap, runs, reads, call, request, context, graph, ranked_variants, scoring, result>>

\* the end of the try branch of a stage
StageDone(step, next) ==
    /\ agent_trace' = Append(agent_trace, <<step, "ok">>)
    /\ pc' = next
    /\ UNCHANGED <<adaptive_scoring, handlers, heap, runs, reads, call, request, raised, result>>

\* the context dictionary the prologue builds: conflicts resolved, must-haves and
\* alignment rules compiled; the entries the stages add later start empty
BuildContext(preferences, controls, history) ==
    LET resolved == resolve_conflicts(preferences, controls)
        must_have_preferences ==
            _identify_must_haves(resolved.preferences, resolved.controls)
        alignment_rules ==
            compile_alignment_rules(resolved.preferences, resolved.controls,
                                    must_have_preferences)
    IN  [extracted_preferences |-> resolved.preferences,
         user_control_config |-> resolved.controls,
         conversation_history |-> history,
         must_have_preferences |-> must_have_preferences,
         alignment_rules |-> alignment_rules,
         strict_constraints_active |-> has_strict_constraints(alignment_rules),
         must_have_features |-> {},
         candidate_variants |-> <<>>,
         tradeoffs |-> 0,
         rejected_variants |-> <<>>,
         compliant_count |-> 0,
         hybrid_graph_diagnostics |-> FALSE,
         ranked_variants |-> <<>>,
         validation_removed_variant_names |-> {},
         validated_variants |-> <<>>,
         advanced_variants |-> <<>>,
         explanation_contexts |-> <<>>]

\* the prologue of the run: a fresh graph and the context
Start ==
    /\ pc = "idle"
    /\ \E preferences \in RequestPreferences, controls \in RequestControls,
          history \in Histories :
          /\ request' = [extracted_preferences |-> preferences,
                         user_control_config |-> controls,
                         conversation_history |-> history]
          /\ context' = BuildContext(preferences, controls, history)
    /\ graph' = EmptyGraph
    /\ agent_trace' = <<>>
    /\ ranked_variants' = <<>>
    /\ scoring' = NoScoring
    /\ pc' = "stage1"
    /\ UNCHANGED <<adaptive_scoring, handlers, heap, runs, reads, call, raised, result>>

Stage1 ==
    /\ pc = "stage1"
    /\ \/ StageFails(10)
       \/ /\ graph' = PreferenceExtractionAgent(graph, context)
          /\ context' = [context EXCEPT !.must_have_features =
                                            context.user_control_config.must_have_features]
          /\ StageDone(10, "stage2")
          /\ UNCHANGED <<ranked_variants, scoring>>

Stage2 ==
    /\ pc = "stage2"
    /\ \/ StageFails(20)
       \/ /\ graph' = VariantPruningAgent(graph, context)
          /\ StageDone(20, "stage3")
          /\ UNCHANGED <<context, ranked_variants, scoring>>

Stage3 ==
    /\ pc = "stage3"
    /\ \/ StageFails(30)
       \/ /\ \E matched \in {CarMatchmakerAgent(graph, context)} :
                /\ graph' = matched.graph
                /\ context' = [context EXCEPT !.candidate_variants =
                                                  matched.candidate_variants]
          /\ StageDone(30, "stage4")
          /\ UNCHANGED <<ranked_variants, scoring>>

Stage4 ==
    /\ pc = "stage4"
    /\ \/ StageFails(40)
       \/ /\ \E tradeoffs \in {_detect_tradeoffs(context.extracted_preferences,
                                                 Len(context.candidate_variants))} :
                /\ graph' = [graph EXCEPT !.tradeoffs = tradeoffs]
                /\ context' = [context EXCEPT !.tradeoffs = tradeoffs]
          /\ StageDone(40, "stage5")
          /\ UNCHANGED <<ranked_variants, scoring>>

Stage5 ==
    /\ pc = "stage5"
    /\ \/ StageFails(50)
       \/ /\ \E tracked \in {ContextAwarenessAgent(graph, context)} :
                /\ graph' = tracked.graph
                /\ context' = [context EXCEPT
                                  !.candidate_variants = tracked.candidate_variants,
                                  !.rejected_variants = tracked.rejected_variants]
          /\ StageDone(50, "scoring")
          /\ UNCHANGED <<ranked_variants, scoring>>

\* the names of the candidates that have a Variant node
candidate_variant_names(graph_, context_) ==
    SeqFilter(context_.candidate_variants,
              [i \in DOMAIN context_.candidate_variants |->
                  context_.candidate_variants[i] \in graph_.variants])

\* a run that takes the empty-candidate exit for no candidate list at all
NoCandidates_Never(names) == FALSE

\* `if not candidate_variant_names`
NoCandidates(names) == names = <<>>

\* the payload of the empty-candidate exit
EmptyPayload(context_) ==
    [status |-> "no_candidates",
     recommendations |-> <<>>,
     explanation_contexts |-> <<>>,
     pipeline_stats |-> [candidates_found |-> 0, variants_scored |-> 0,
                         variants_validated |-> 0,
                         tradeoffs_identified |-> context_.tradeoffs,
                         rejected_variants |-> Len(context_.rejected_variants)]]

ReturnNoCandidates ==
    /\ pc = "scoring"
    /\ NoCandidates(candidate_variant_names(graph, context))
    /\ result' = EmptyPayload(context)
    /\ pc' = "returned"
    /\ UNCHANGED <<adaptive_scoring, handlers, heap, runs, reads, call, request, context, graph, ranked_variants, agent_trace, scoring, raised>>

\* the ranked list the scoring block leaves: the candidate rows in the order the scoring
\* function, the path blend and the context signals give them, scores descending
ScoredList(names, order) ==
    LET rows == IF order = "catalog" THEN names ELSE Reverse(names)
    IN  [i \in DOMAIN rows |->
            [RankedVariant(rows[i]) EXCEPT !.score = BaseScore(i),
                                           !.combined_score = BaseScore(i)]]

\* the scoring block: the call of the external scoring function; its exception is caught
\* and leaves an empty ranked list
Scoring ==
    /\ pc = "scoring"
    /\ ~NoCandidates(candidate_variant_names(graph, context))
    /\ \/ \E order \in ScoreOrders :
             \E ranked \in {ScoredList(candidate_variant_names(graph, context), order)} :
                /\ ranked_variants' = ranked
                /\ scoring' = [calls |-> scoring.calls + 1, outcome |-> "ok",
                               returned |-> ranked]
       \/ /\ ranked_variants' = <<>>
          /\ scoring' = [calls |-> scoring.calls + 1, outcome |-> "raised",
                         returned |-> <<>>]
    /\ pc' = "rerank"
    /\ UNCHANGED <<adaptive_scoring, handlers, heap, runs, reads, call, request, context, graph, agent_trace, raised, result>>

\* alignment relaxes everywhere, strict constraints or not
AllowRelaxation_Always(strict_constraints_active) == TRUE

\* allow_relaxation=not strict_constraints_active
AllowRelaxation(strict_constraints_active) == ~strict_constraints_active

\* diversity reranking, then alignment enforcement
Rerank ==
    /\ pc = "rerank"
    /\ \E aligned \in
          {enforce_alignment_on_ranked_variants(
               diverse, context.extracted_preferences, context.alignment_rules, 5,
               AllowRelaxation(context.strict_constraints_active)) :
           diverse \in {enhance_scoring_with_diversity(
                            ranked_variants, context.extracted_preferences,
                            context.user_control_config)}} :
          /\ ranked_variants' = aligned
          /\ context' = [context EXCEPT !.compliant_count =
                            Cardinality({i \in DOMAIN aligned :
                                            aligned[i].hard_failures = <<>>})]
    /\ pc' = "hybrid"
    /\ UNCHANGED <<adaptive_scoring, handlers, heap, runs, reads, call, request, graph, agent_trace, scoring, raised, result>>

\* the hybrid coalition, whose failure is traced and survived, then the ScoringEngine
\* trace entry; for an empty list apply raises when it builds its diagnostics
Hybrid ==
    /\ pc = "hybrid"
    /\ \/ \E reordered \in Reorderings(ranked_variants) :
             /\ ranked_variants # <<>>
             /\ ranked_variants' = reordered
             /\ context' = [context EXCEPT !.hybrid_graph_diagnostics = TRUE,
                                           !.ranked_variants = reordered]
             /\ agent_trace' = agent_trace \o << <<57, "ok">>, <<55, "ok">> >>
       \/ /\ ranked_variants' = ranked_variants
          /\ context' = [context EXCEPT !.ranked_variants = ranked_variants]
          /\ agent_trace' = agent_trace \o << <<57, "error">>, <<55, "ok">> >>
    /\ pc' = "stage6"
    /\ UNCHANGED <<adaptive_scoring, handlers, heap, runs, reads, call, request, graph, scoring, raised, result>>

RECURSIVE Backfill(_, _, _)
\* the repair loop: append, up to five, the ranked variants that have no hard failure,
\* were not removed by validation and are not in the list yet
Backfill(target, source, removed_names) ==
    IF source = <<>> \/ Len(target) >= 5 THEN target
    ELSE LET variant == Head(source)
             skip == \/ variant.hard_failures # <<>>
                     \/ lower(variant.car.variant) \in removed_names
                     \/ \E i \in DOMAIN target : target[i].id = variant.id
         IN  Backfill(IF skip THEN target ELSE Append(target, variant), Tail(source),
                      removed_names)

Stage6 ==
    /\ pc = "stage6"
    /\ \/ StageFails(60)
       \/ /\ \E checked \in {ValidationAndSanityAgent(graph, context)} :
                LET removed_names ==
                        {lower(checked.removed_variants[i].car.variant) :
                            i \in DOMAIN checked.removed_variants}
                    validated_variants ==
                        IF /\ Len(checked.validated_variants) < 5
                           /\ Len(ranked_variants) >= 5
                           /\ ~context.strict_constraints_active
                        THEN Backfill(checked.validated_variants, ranked_variants,
                                      removed_names)
                        ELSE checked.validated_variants
                IN  context' = [context EXCEPT
                                   !.validation_removed_variant_names = removed_names,
                                   !.validated_variants = validated_variants]
          /\ StageDone(60, "stage7")
          /\ UNCHANGED <<graph, ranked_variants, scoring>>

\* AdvancedReasoningAgent.execute keeps every variant it evaluates when there are five or
\* fewer, which the diversity step ensures, and sorts them by consensus score
Stage7 ==
    /\ pc = "stage7"
    /\ \/ StageFails(70)
       \/ /\ \E advanced \in Reorderings(AdvancedInput(graph, context)) :
                context' = [context EXCEPT
                               !.advanced_variants = advanced,
                               !.ranked_variants = IF advanced # <<>> THEN advanced ELSE @]
          /\ StageDone(70, "stage8")
          /\ UNCHANGED <<graph, ranked_variants, scoring>>

Stage8 ==
    /\ pc = "stage8"
    /\ \/ StageFails(80)
       \/ /\ context' = [context EXCEPT !.explanation_contexts =
                                            ExplanationAgent(graph, context)]
          /\ StageDone(80, "finish")
          /\ UNCHANGED <<graph, ranked_variants, scoring>>

\* the final backfill, the cut to five and the return
Finish ==
    /\ pc = "finish"
    /\ LET chosen == IF context.advanced_variants # <<>> THEN context.advanced_variants
                     ELSE context.validated_variants
           final_recommendations ==
               IF Len(chosen) < 5 /\ ~context.strict_constraints_active
               THEN Backfill(chosen, ranked_variants,
                             context.validation_removed_variant_names)
               ELSE chosen
       IN  result' =
               [status |-> "ok",
                recommendations |-> Take(final_recommendations, 5),
                explanation_contexts |-> context.explanation_contexts,
                pipeline_stats |->
                   [candidates_found |-> Len(context.candidate_variants),
                    variants_scored |-> Len(ranked_variants),
                    variants_validated |->
                        IF context.advanced_variants # <<>>
                        THEN Len(context.validated_variants)
                        ELSE Len(final_recommendations),
                    tradeoffs_identified |-> context.tradeoffs,
                    rejected_variants |-> Len(context.rejected_variants)]]
    /\ pc' = "returned"
    /\ UNCHANGED <<adaptive_scoring, handlers, heap, runs, reads, call, request, context, graph, ranked_variants, agent_trace, scoring, raised>>

Next ==
    \/ Start \/ Stage1 \/ Stage2 \/ Stage3 \/ Stage4 \/ Stage5
    \/ ReturnNoCandidates \/ Scoring \/ Rerank \/ Hybrid
    \/ Stage6 \/ Stage7 \/ Stage8 \/ Finish

Spec == Init /\ [][Next]_vars

(***************************************************************************)
(* SpecConcurrent: two concurrent calls of run_recommendation_pipeline on  *)
(* one pipeline object.  The heap holds the objects the calls reach: the   *)
(* bridge of the pipeline object, and the KnowledgeGraph, GraphPathReasoner *)
(* and context dictionary each call constructs.  An object records the     *)
(* runs that wrote it, a cache entry the run that stored it, and `reads`   *)
(* every (reader, writer) pair a step observes.                            *)
(***************************************************************************)
Sessions == {"s1", "s2"}

\* a constructor call returns an object of the pool when the pool has one of the kind
Allocate_Pooled(heap_, kind) ==
    IF \E i \in DOMAIN heap_ : heap_[i].kind = kind
    THEN CHOOSE i \in DOMAIN heap_ : heap_[i].kind = kind
    ELSE Len(heap_) + 1

\* a constructor call returns a new object
Allocate(heap_, kind) == Len(heap_) + 1

\* the heap with an object at a reference
Put(heap_, ref, object) ==
    [i \in 1..Max2(Len(heap_), ref) |-> IF i = ref THEN object ELSE heap_[i]]

\* an object after a write of run r
Written(object, r) == [object EXCEPT !.writers = @ \cup {r}]

\* what run r observes when it reads an object
Observed(heap_, ref, r) ==
    {[reader |-> r, writer |-> w, kind |-> heap_[ref].kind] : w \in heap_[ref].writers}

\* AgentLightningBridge.emit: _load_client reads _client_checked and sets it once
Emit(heap_, r) ==
    IF heap_[BridgeRef].client_checked THEN heap_
    ELSE [heap_ EXCEPT ![BridgeRef] = Written([@ EXCEPT !.client_checked = TRUE], r)]

\* GraphPathReasoner.score_variant_by_paths for a set of variants: a cached result is
\* returned, a missing one is computed on the reasoner's graph and stored
score_variant_by_paths(heap_, reasoner_ref, variants, user_id, r) ==
    LET reasoner == heap_[reasoner_ref]
        hits == {e \in reasoner.cache : e.variant_id \in variants /\ e.user_id = user_id}
        misses == {c \in variants : \A e \in hits : e.variant_id # c}
        stored == {[variant_id |-> c, user_id |-> user_id,
                    total_path_score |-> PathScore(c, heap_[reasoner.graph].value),
                    writer |-> r] : c \in misses}
    IN  [heap |-> IF misses = {} THEN heap_
                  ELSE [heap_ EXCEPT ![reasoner_ref] =
                           Written([@ EXCEPT !.cache = @ \cup stored], r)],
         reads |-> {[reader |-> r, writer |-> e.writer, kind |-> "reasoner"] : e \in hits}
                   \cup (IF misses = {} THEN {}
                         ELSE Observed(heap_, reasoner.graph, r))]

\* the prologue of a call: graph, path reasoner and context are constructed, and the
\* session start is emitted
RunStart(r) ==
    /\ runs[r].pc = "idle"
    /\ \E session_id \in Sessions, preferences \in RequestPreferences :
          LET graph_ref == Allocate(heap, "graph")
              heap1 == Put(heap, graph_ref,
                           [kind |-> "graph", value |-> EmptyGraph, writers |-> {}])
              reasoner_ref == Allocate(heap1, "reasoner")
              heap2 == Put(heap1, reasoner_ref,
                           [kind |-> "reasoner", graph |-> graph_ref, cache |-> {},
                            writers |-> {}])
              context_ref == Allocate(heap2, "context")
              heap3 == Put(heap2, context_ref,
                           [kind |-> "context",
                            value |-> BuildContext(preferences,
                                                   Controls("any", {}, {}, {},
                                                            DefaultPriorities), <<>>)
                                      @@ [session_id |-> session_id,
                                          path_reasoner |-> reasoner_ref],
                            writers |-> {r}])
          IN  /\ heap' = Emit(heap3, r)
              /\ reads' = reads \cup Observed(heap3, BridgeRef, r)
              /\ runs' = [runs EXCEPT ![r] = [pc |-> "stage1", session_id |-> session_id,
                                              graph |-> graph_ref,
                                              context |-> context_ref]]
    /\ UNCHANGED <<call, run_vars, adaptive_scoring, handlers>>

\* a stage of run r: the agent reads the run's graph and context and leaves new values
\* in them, and the trace entry is emitted
AgentStep(r, from, to, new_graph, new_context) ==
    /\ runs[r].pc = from
    /\ heap' = Emit([heap EXCEPT
                        ![runs[r].graph] = Written([@ EXCEPT !.value = new_graph], r),
                        ![runs[r].context] = Written([@ EXCEPT !.value = new_context], r)],
                    r)
    /\ reads' = reads \cup Observed(heap, runs[r].graph, r)
                      \cup Observed(heap, runs[r].context, r)
                      \cup Observed(heap, BridgeRef, r)
    /\ runs' = [runs EXCEPT ![r].pc = to]
    /\ UNCHANGED <<call, run_vars, adaptive_scoring, handlers>>

RunGraph(r) == heap[runs[r].graph].value
RunContext(r) == heap[runs[r].context].value

RunStage1(r) ==
    /\ runs[r].pc = "stage1"
    /\ AgentStep(r, "stage1", "stage2",
                 PreferenceExtractionAgent(RunGraph(r), RunContext(r)), RunContext(r))

RunStage2(r) ==
    /\ runs[r].pc = "stage2"
    /\ AgentStep(r, "stage2", "stage3",
                 VariantPruningAgent(RunGraph(r), RunContext(r)), RunContext(r))

\* Stage 3 scores the paths of every Variant node through the context's path reasoner
RunStage3(r) ==
    /\ runs[r].pc = "stage3"
    /\ \E matched \in {CarMatchmakerAgent(RunGraph(r), RunContext(r))},
          scored \in {score_variant_by_paths(heap, RunContext(r).path_reasoner,
                                             RunGraph(r).variants, runs[r].session_id, r)} :
          /\ heap' = Emit([scored.heap EXCEPT
                              ![runs[r].graph] =
                                  Written([@ EXCEPT !.value = matched.graph], r),
                              ![runs[r].context] =
                                  Written([@ EXCEPT !.value.candidate_variants =
                                                        matched.candidate_variants], r)],
                          r)
          /\ reads' = reads \cup scored.reads
                            \cup Observed(heap, runs[r].graph, r)
                            \cup Observed(heap, runs[r].context, r)
                            \cup Observed(heap, BridgeRef, r)
    /\ runs' = [runs EXCEPT ![r].pc = "stage4"]
    /\ UNCHANGED <<call, run_vars, adaptive_scoring, handlers>>

RunStage4(r) ==
    /\ runs[r].pc = "stage4"
    /\ \E tradeoffs \in {_detect_tradeoffs(RunContext(r).extracted_preferences,
                                           Len(RunContext(r).candidate_variants))} :
          AgentStep(r, "stage4", "stage5", [RunGraph(r) EXCEPT !.tradeoffs = tradeoffs],
                    [RunContext(r) EXCEPT !.tradeoffs = tradeoffs])

RunStage5(r) ==
    /\ runs[r].pc = "stage5"
    /\ \E tracked \in {ContextAwarenessAgent(RunGraph(r), RunContext(r))} :
          AgentStep(r, "stage5", "scoring", tracked.graph,
                    [RunContext(r) EXCEPT
                        !.candidate_variants = tracked.candidate_variants,
                        !.rejected_variants = tracked.rejected_variants])

\* the scoring block blends the path score of every candidate, through the context's
\* path reasoner, and the call returns
RunScoring(r) ==
    /\ runs[r].pc = "scoring"
    /\ \E scored \in {score_variant_by_paths(heap, RunContext(r).path_reasoner,
                                             Range(RunContext(r).candidate_variants),
                                             runs[r].session_id, r)} :
          /\ heap' = scored.heap
          /\ reads' = reads \cup scored.reads
                            \cup Observed(heap, runs[r].graph, r)
                            \cup Observed(heap, runs[r].context, r)
    /\ runs' = [runs EXCEPT ![r].pc = "returned"]
    /\ UNCHANGED <<call, run_vars, adaptive_scoring, handlers>>

NextConcurrent ==
    \E r \in Runs :
        \/ RunStart(r) \/ RunStage1(r) \/ RunStage2(r) \/ RunStage3(r)
        \/ RunStage4(r) \/ RunStage5(r) \/ RunScoring(r)

SpecConcurrent == Init /\ [][NextConcurrent]_vars

(***************************************************************************)
(* knowledge_graph.py.  A KnowledgeGraph is its node ids and its edges in  *)
(* insertion order; the two edge indices keep, per node and type, the      *)
(* edges in that order.                                                    *)
(***************************************************************************)
\* the edge types with an edge at one end of which is node_id, in the order in which the
\* index of that end first saw them
IndexedTypes(kg, node_id, end) ==
    LET mine == SeqFilter(kg.edges, [i \in DOMAIN kg.edges |-> kg.edges[i][end] = node_id])
        first == SeqFilter(mine, [i \in DOMAIN mine |->
                                     \A j \in 1..(i - 1) : mine[j].type # mine[i].type])
    IN  [i \in DOMAIN first |-> first[i].type]

\* the ids get_neighbors collects from one index: `end` is the end of the edge that is
\* node_id and `other` the end that is returned when it is a node
IndexNeighbors(kg, node_id, edge_type, end, other) ==
    LET types == IF edge_type # None THEN <<edge_type>> ELSE IndexedTypes(kg, node_id, end)
        edges == Flatten([t \in DOMAIN types |->
                     SeqFilter(kg.edges, [i \in DOMAIN kg.edges |->
                         kg.edges[i][end] = node_id /\ kg.edges[i].type = types[t]])])
        found == SeqFilter(edges, [i \in DOMAIN edges |-> edges[i][other] \in kg.nodes])
    IN  [i \in DOMAIN found |-> found[i][other]]

\* KnowledgeGraph.get_neighbors: the ids of the neighbour nodes it returns, in order
get_neighbors(kg, node_id, edge_type, direction) ==
    (IF direction \in {"outgoing", "both"}
     THEN IndexNeighbors(kg, node_id, edge_type, "source_id", "target_id") ELSE <<>>)
    \o (IF direction \in {"incoming", "both"}
        THEN IndexNeighbors(kg, node_id, edge_type, "target_id", "source_id") ELSE <<>>)

\* KnowledgeGraph.has_edge, through the linear scan of get_edges
has_edge(kg, source_id, target_id, edge_type) ==
    \E i \in DOMAIN kg.edges :
        /\ kg.edges[i].source_id = source_id
        /\ kg.edges[i].target_id = target_id
        /\ edge_type # None => kg.edges[i].type = edge_type

RECURSIVE dfs(_, _, _, _, _, _, _), dfs_loop(_, _, _, _, _, _, _)
\* the inner function dfs of traverse: `search` is the visited set and the paths so far.
\* The node is marked on entry; the branch that saves a completed path returns before the
\* node is un-marked
dfs(kg, edge_types, max_depth, current_id, path, depth, search) ==
    IF depth > max_depth THEN search
    ELSE LET marked == [search EXCEPT !.visited = @ \cup {current_id}]
         IN  IF depth = Len(edge_types) THEN [marked EXCEPT !.paths = Append(@, path)]
             ELSE LET neighbors ==
                          get_neighbors(kg, current_id, edge_types[depth + 1], "outgoing")
                  IN  [dfs_loop(kg, edge_types, max_depth, neighbors, path, depth, marked)
                          EXCEPT !.visited = @ \ {current_id}]

\* the loop of dfs over the neighbours
dfs_loop(kg, edge_types, max_depth, neighbors, path, depth, search) ==
    IF neighbors = <<>> THEN search
    ELSE dfs_loop(kg, edge_types, max_depth, Tail(neighbors), path, depth,
                  IF Head(neighbors) \in search.visited THEN search
                  ELSE dfs(kg, edge_types, max_depth, Head(neighbors),
                           Append(path, Head(neighbors)), depth + 1, search))

\* KnowledgeGraph.traverse: the paths, as sequences of node ids, in the order found
traverse(kg, start_node_id, edge_types, max_depth) ==
    IF start_node_id \notin kg.nodes THEN <<>>
    ELSE dfs(kg, edge_types, max_depth, start_node_id, <<start_node_id>>, 0,
             [visited |-> {}, paths |-> <<>>]).paths

(***************************************************************************)
(* SpecGraph: queries on every graph of the model and on a graph built     *)
(* from the same edges with same-type edges inserted in another order.     *)
(***************************************************************************)
MaxEdges == 4

GraphNodes == {"n1", "n2", "n3", "n4"}

\* two T1 branches from n1 that meet in n4, and a T2 edge back to n1
EdgeUniverse ==
    {[source_id |-> "n1", target_id |-> "n2", type |-> "T1"],
     [source_id |-> "n1", target_id |-> "n3", type |-> "T1"],
     [source_id |-> "n2", target_id |-> "n4", type |-> "T2"],
     [source_id |-> "n3", target_id |-> "n4", type |-> "T2"],
     [source_id |-> "n2", target_id |-> "n1", type |-> "T2"]}

EdgeLists == UNION {[1..k -> EdgeUniverse] : k \in 0..MaxEdges}

\* the lists that hold the same edges with the edges of each type in another order
SameTypeReorderings(edges) ==
    {other \in [DOMAIN edges -> Range(edges)] :
        /\ \A i \in DOMAIN edges : other[i].type = edges[i].type
        /\ \A e \in Range(edges) :
              Cardinality({i \in DOMAIN edges : other[i] = e})
                  = Cardinality({i \in DOMAIN edges : edges[i] = e})}

GraphQueries ==
    {[fn |-> "get_neighbors", node_id |-> n, edge_type |-> t, direction |-> d] :
        n \in GraphNodes, t \in {None, "T1"}, d \in {"outgoing", "incoming", "both"}}
    \cup {[fn |-> "has_edge", source_id |-> s, target_id |-> t, edge_type |-> ty] :
             s \in {"n1", "n2"}, t \in {"n2", "n4"}, ty \in {None, "T2"}}
    \cup {[fn |-> "traverse", start_node_id |-> s, edge_types |-> ts, max_depth |-> d] :
             s \in {"n1", "n2"}, ts \in {<<>>, <<"T1">>, <<"T1", "T2">>, <<"T2", "T1">>},
             d \in {2, 3}}

\* the answer of a graph to a query
Answer(kg, query) ==
    CASE query.fn = "get_neighbors" ->
             get_neighbors(kg, query.node_id, query.edge_type, query.direction)
      [] query.fn = "has_edge" ->
             has_edge(kg, query.source_id, query.target_id, query.edge_type)
      [] OTHER -> traverse(kg, query.start_node_id, query.edge_types, query.max_depth)

CallKnowledgeGraph ==
    /\ call = NoCall
    /\ \E edges \in EdgeLists, query \in GraphQueries :
          \E reordered \in SameTypeReorderings(edges) :
             call' = [fn |-> query.fn, query |-> query,
                      kg |-> [nodes |-> GraphNodes, edges |-> edges],
                      result |-> Answer([nodes |-> GraphNodes, edges |-> edges], query),
                      reordered |-> reordered,
                      reordered_result |->
                          Answer([nodes |-> GraphNodes, edges |-> reordered], query)]
    /\ UNCHANGED pipeline_vars

SpecGraph == Init /\ [][CallKnowledgeGraph]_vars

(***************************************************************************)
(* preference_alignment.py: one priority moved across the 0.8 threshold.   *)
(***************************************************************************)
\* the keys of scoring_priorities that compile_alignment_rules reads
PriorityKeys == {"budget", "fuel_type", "body_type", "transmission", "seating", "features"}

\* the positions of the pool that evaluate_variant_alignment marks compliant
CompliantPositions(pool, preferences, controls, must_have_preferences) ==
    CHOOSE out \in
        {{i \in DOMAIN pool : evaluate_variant_alignment(pool[i], rules, preferences).compliant} :
         rules \in {compile_alignment_rules(preferences, controls, must_have_preferences)}} : TRUE

PriorityControls ==
    {[Controls(m, {"Honda"}, {}, f, DefaultPriorities) EXCEPT !.price_tolerance = t] :
        m \in {"any", "strict"}, f \in {{}, {"Sunroof"}}, t \in {5, 15, 40}}

PriorityPreferences ==
    {[budget |-> <<80, 100>>, fuel_type |-> "Petrol", body_type |-> "SUV",
      transmission |-> "Automatic", seating |-> 5, features |-> <<"ABS">>],
     [budget |-> <<80, 100>>, fuel_type |-> "Diesel", body_type |-> "Any",
      transmission |-> "Any", seating |-> 7, features |-> <<"Sunroof">>]}

CallEvaluateAlignment ==
    /\ call = NoCall
    /\ \E pool \in Pools, controls \in PriorityControls, preferences \in PriorityPreferences,
          key \in PriorityKeys, low \in {20, 50, 79}, high \in {80, 100} :
          LET soft == [controls EXCEPT !.scoring_priorities[key] = low]
              hard == [controls EXCEPT !.scoring_priorities[key] = high]
          IN  call' = [fn |-> "evaluate_variant_alignment",
                       pool |-> pool,
                       preferences |-> preferences,
                       key |-> key,
                       controls |-> soft,
                       raised_controls |-> hard,
                       compliant |-> CompliantPositions(pool, preferences, soft, {}),
                       raised_compliant |-> CompliantPositions(pool, preferences, hard, {})]
    /\ UNCHANGED pipeline_vars

SpecPriority == Init /\ [][CallEvaluateAlignment]_vars

(***************************************************************************)
(* diversity_reranker.py: enhance_scoring_with_diversity on pools in which *)
(* several rows carry one brand.                                           *)
(***************************************************************************)
\* the brands a dealer feed may give the rows 2, 6 and 7 of the catalog
BrandLabels ==
    {[c \in CarIds |-> IF c = 2 THEN b2 ELSE IF c = 6 THEN b6 ELSE IF c = 7 THEN b7
                       ELSE Catalog[c].brand] :
        b2 \in {"MARUTI", "Honda"}, b6 \in {None, "Honda", "Tata"}, b7 \in {"Toyota", "Tata"}}

\* scored lists of at least five rows, in descending order of score
LabelledPools ==
    {[i \in DOMAIN pool |-> [pool[i] EXCEPT !.car.brand = labels[pool[i].id]]] :
        pool \in {RankedList(cars, 1) : cars \in {S \in SUBSET CarIds : Cardinality(S) >= 5}},
        labels \in BrandLabels}

DiversityControls ==
    {[Controls("any", {}, b, {}, DefaultPriorities) EXCEPT !.diversity_mode = d,
                                                           !.price_preference = p] :
        b \in BlacklistChoices, d \in {"balanced", "maximum_diversity"},
        p \in {None, "lower", "mid", "higher"}}

\* the brands of a list as the diversity engine reads them
BrandsOf(variants) == {_extract_brand(variants[i]) : i \in DOMAIN variants}

CallEnhanceScoring ==
    /\ call = NoCall
    /\ \E scored \in LabelledPools, controls \in DiversityControls :
          LET preferences == [budget |-> <<80, 100>>, fuel_type |-> "Any", body_type |-> "Any",
                              transmission |-> "Any", seating |-> 5, features |-> <<>>]
          IN  call' = [fn |-> "enhance_scoring_with_diversity",
                       scored_variants |-> scored,
                       controls |-> controls,
                       max_per_brand |->
                           from_user_preferences(preferences, controls).max_variants_per_brand,
                       pool |-> _apply_brand_filters(scored, controls),
                       result |-> enhance_scoring_with_diversity(scored, preferences, controls)]
    /\ UNCHANGED pipeline_vars

SpecDiversity == Init /\ [][CallEnhanceScoring]_vars

(***************************************************************************)
(* dynamic_scoring_config.py and app.py: the feedback history.  The module *)
(* object adaptive_scoring is shared by the request threads; the server    *)
(* runs with threaded=True and update_from_feedback takes no lock, so its  *)
(* statements interleave.  user_feedback_history maps a session id to the  *)
(* reference of a list object in `lists`.                                  *)
(***************************************************************************)
\* AdaptiveScoringSystem._extract_brand: variant.split()[0]
SplitFirst(variant) ==
    CASE variant = "Honda City VX" -> "Honda"
      [] variant = "Tata Nexon XZ" -> "Tata"
      [] variant = "Kia Seltos HTK+" -> "Kia"
      [] OTHER -> variant

\* the feedback payloads capture_feedback passes on
FeedbackChoices ==
    {[accepted_variants |-> <<"Honda City VX", "Tata Nexon XZ">>,
      rejected_variants |-> <<"Kia Seltos HTK+">>],
     [accepted_variants |-> <<>>, rejected_variants |-> <<"Honda City VX">>]}

\* capture_feedback up to the call of update_from_feedback; an empty session id is a 400
ReceiveFeedback(h) ==
    /\ handlers[h].pc = "idle"
    /\ \E session_id \in Sessions \cup {""}, feedback \in FeedbackChoices :
          handlers' = [handlers EXCEPT ![h] =
                          [pc |-> IF session_id = "" THEN "rejected" ELSE "check",
                           session_id |-> session_id, feedback |-> feedback, list |-> 0]]
    /\ UNCHANGED <<call, run_vars, heap, runs, reads, adaptive_scoring>>

\* `if session_id not in self.user_feedback_history:`
CheckHistory(h) ==
    /\ handlers[h].pc = "check"
    /\ handlers' = [handlers EXCEPT ![h].pc =
                       IF handlers[h].session_id \in DOMAIN adaptive_scoring.user_feedback_history
                       THEN "lookup" ELSE "create"]
    /\ UNCHANGED <<call, run_vars, heap, runs, reads, adaptive_scoring>>

\* `self.user_feedback_history[session_id] = []`
CreateHistory(h) ==
    /\ handlers[h].pc = "create"
    /\ adaptive_scoring' =
          [adaptive_scoring EXCEPT
              !.lists = Append(@, <<>>),
              !.user_feedback_history =
                  (handlers[h].session_id :> (Len(adaptive_scoring.lists) + 1)) @@ @]
    /\ handlers' = [handlers EXCEPT ![h].pc = "lookup"]
    /\ UNCHANGED <<call, run_vars, heap, runs, reads>>

\* the subscript of `self.user_feedback_history[session_id].append(feedback)`
LookupHistory(h) ==
    /\ handlers[h].pc = "lookup"
    /\ handlers' = [handlers EXCEPT
                       ![h].pc = "append",
                       ![h].list = adaptive_scoring.user_feedback_history[handlers[h].session_id]]
    /\ UNCHANGED <<call, run_vars, heap, runs, reads, adaptive_scoring>>

\* the append to the list object that the subscript returned
AppendFeedback(h) ==
    /\ handlers[h].pc = "append"
    /\ adaptive_scoring' = [adaptive_scoring EXCEPT
                               !.lists[handlers[h].list] = Append(@, handlers[h].feedback)]
    /\ handlers' = [handlers EXCEPT ![h].pc = "analyze"]
    /\ UNCHANGED <<call, run_vars, heap, runs, reads>>

\* the loop over the session's history and the adjustment of the learned weights
AnalyzeFeedback(h) ==
    /\ handlers[h].pc = "analyze"
    /\ LET history == adaptive_scoring.lists[
                          adaptive_scoring.user_feedback_history[handlers[h].session_id]]
           accepted_brands == UNION {{SplitFirst(v) : v \in Range(history[i].accepted_variants)} :
                                        i \in DOMAIN history}
           rejected_brands == UNION {{SplitFirst(v) : v \in Range(history[i].rejected_variants)} :
                                        i \in DOMAIN history}
       IN  adaptive_scoring' =
              IF rejected_brands # {} /\ Cardinality(accepted_brands) > Cardinality(rejected_brands)
              THEN [adaptive_scoring EXCEPT
                       !.learned_weights.diversity_weight = Min2(50, @ + 5),
                       !.learned_weights.max_variants_per_brand = Max2(1, @ - 1)]
              ELSE adaptive_scoring
    /\ handlers' = [handlers EXCEPT ![h].pc = "done"]
    /\ UNCHANGED <<call, run_vars, heap, runs, reads>>

NextFeedback ==
    \E h \in Handlers :
        \/ ReceiveFeedback(h)
        \/ CheckHistory(h)
        \/ CreateHistory(h)
        \/ LookupHistory(h)
        \/ AppendFeedback(h)
        \/ AnalyzeFeedback(h)

SpecFeedback == Init /\ [][NextFeedback]_vars

(***************************************************************************)
(* hybrid_graph_coalition.py: personalized PageRank.  Edge weights are in  *)
(* units of 1/10000, scores in units of 1/100000; a division truncates, so *)
(* a sum of scores is exact up to a few hundred units.                     *)
(***************************************************************************)
EDGE_WEIGHTS(type) ==
    CASE type = "PREFERS" -> 10000
      [] type = "HAS_FEATURE" -> 9000
      [] type = "SUITABLE_FOR" -> 8500
      [] type = "BETTER_THAN" -> 7000
      [] type = "INVOLVES_TRADEOFF" -> 5500
      [] type = "SHORTLISTED" -> 6500
      [] type = "VIEWED" -> 4500
      [] type = "VIOLATES" -> 2500
      [] type = "REJECTED" -> 2000
      [] OTHER -> 3500

\* outgoing[src] of _weighted_outgoing: the (target, weight) pairs, with the damped
\* reverse pair of the four two-way edge types
_weighted_outgoing(kg, src) ==
    Flatten([i \in DOMAIN kg.edges |->
        LET edge == kg.edges[i]
            w == EDGE_WEIGHTS(edge.type)
        IN  (IF edge.source_id = src THEN << <<edge.target_id, w>> >> ELSE <<>>)
            \o (IF /\ edge.target_id = src
                   /\ edge.type \in {"HAS_FEATURE", "SUITABLE_FOR", "INVOLVES_TRADEOFF",
                                     "BETTER_THAN"}
                THEN << <<edge.source_id, Max2(2000, (w * 45) \div 100)>> >> ELSE <<>>)])

\* the score that the edges carry from src to nid in one round, damping 0.85
Flow(kg, score, src, nid) ==
    LET out == _weighted_outgoing(kg, src)
        total == SumOver(DOMAIN out, [i \in DOMAIN out |-> out[i][2]])
        norm == IF total = 0 THEN 10000 ELSE total
    IN  SumOver(DOMAIN out, [i \in DOMAIN out |->
            IF out[i][1] = nid
            THEN (((score[src] * 85) \div 100) * ((out[i][2] * 10000) \div norm)) \div 10000
            ELSE 0])

RECURSIVE NextScores(_, _, _, _)
\* `nxt` at the end of a round, for the nodes of `todo`: the uniform share, the flow
\* along the edges and the teleport bias
NextScores(kg, teleport_nodes, score, todo) ==
    IF todo = {} THEN <<>>
    ELSE LET nid == CHOOSE x \in todo : TRUE
             teleport_mass == 100000 \div Max2(1, Len(teleport_nodes))
         IN  (nid :> ((15 * 100000) \div (100 * Cardinality(kg.nodes))
                      + SumOver(kg.nodes, [src \in kg.nodes |-> Flow(kg, score, src, nid)])
                      + Cardinality({i \in DOMAIN teleport_nodes : teleport_nodes[i] = nid})
                            * ((15 * teleport_mass) \div 100)))
             @@ NextScores(kg, teleport_nodes, score, todo \ {nid})

RECURSIVE PowerIteration(_, _, _, _)
\* the remaining rounds of the loop `for _ in range(self.iterations)`
PowerIteration(kg, teleport_nodes, score, rounds) ==
    IF rounds = 0 THEN score
    ELSE CHOOSE out \in
            {PowerIteration(kg, teleport_nodes, nxt, rounds - 1) :
             nxt \in {NextScores(kg, teleport_nodes, score, kg.nodes)}} : TRUE

\* the scores of _personalized_pagerank before (`score`) and after (`normalized`, in
\* thousandths) the division by the maximum; iterations = 26
_personalized_pagerank(kg, session_id) ==
    IF kg.nodes = {} \/ session_id \notin kg.nodes THEN [score |-> <<>>, normalized |-> <<>>]
    ELSE CHOOSE out \in
            {[score |-> score,
              normalized |-> [nid \in kg.nodes |->
                                 (score[nid] * 1000) \div
                                     score[CHOOSE m \in kg.nodes :
                                               \A o \in kg.nodes : score[m] >= score[o]]]] :
             score \in {PowerIteration(
                            kg, <<session_id>> \o get_neighbors(kg, session_id, "PREFERS", "outgoing"),
                            [nid \in kg.nodes |-> 100000 \div Cardinality(kg.nodes)], 26)}} : TRUE

\* session graphs: a user node, two preference nodes and two variant nodes
PageRankEdges ==
    {[source_id |-> "s1", target_id |-> "pref_fuel", type |-> "PREFERS"],
     [source_id |-> "s1", target_id |-> "pref_body", type |-> "PREFERS"],
     [source_id |-> "v1", target_id |-> "pref_fuel", type |-> "VIOLATES"],
     [source_id |-> "v1", target_id |-> "pref_body", type |-> "HAS_FEATURE"],
     [source_id |-> "v2", target_id |-> "pref_body", type |-> "SUITABLE_FOR"],
     [source_id |-> "pref_fuel", target_id |-> "s1", type |-> "INVOLVES_TRADEOFF"]}

CallPersonalizedPagerank ==
    /\ call = NoCall
    /\ \E edges \in SUBSET PageRankEdges, others \in {{}, {"v1", "v2"}},
          session_id \in {"s1", "s2"} :
          LET nodes == {"s1", "pref_fuel", "pref_body"} \cup others
              kg == [nodes |-> nodes,
                     edges |-> SetToSeq({e \in edges : e.source_id \in nodes})]
          IN  call' = [fn |-> "_personalized_pagerank", kg |-> kg, session_id |-> session_id,
                       result |-> _personalized_pagerank(kg, session_id)]
    /\ UNCHANGED pipeline_vars

SpecPageRank == Init /\ [][CallPersonalizedPagerank]_vars

(***************************************************************************)
(* The session graph as a KnowledgeGraph object: `nodes` are the keys of   *)
(* graph.nodes, `properties` the type and name of each node, `edges` the   *)
(* list graph.edges.  SpecSessionGraph builds it stage by stage, with the  *)
(* graph in `graph`, the inputs in `request` and the stage in `pc`.        *)
(***************************************************************************)
\* KnowledgeGraph.add_node: the dictionary entry of the id is (re)assigned
add_node(kg, id, type, name) ==
    [kg EXCEPT !.nodes = @ \cup {id}, !.properties = (id :> [type |-> type, name |-> name]) @@ @]

\* KnowledgeGraph.add_edge: the edge is appended, whatever the list holds
add_edge(kg, source_id, target_id, type) ==
    [kg EXCEPT !.edges = Append(@, [source_id |-> source_id, target_id |-> target_id,
                                    type |-> type])]

\* an insertion that skips the has_edge test
add_edge_unless_present_Unchecked(kg, source_id, target_id, type) ==
    add_edge(kg, source_id, target_id, type)

\* `if not graph.has_edge(s, t, type): graph.add_edge(Edge(s, t, type, ...))`
add_edge_unless_present(kg, source_id, target_id, type) ==
    IF has_edge(kg, source_id, target_id, type) THEN kg
    ELSE add_edge(kg, source_id, target_id, type)

\* str.replace(' ', '_') on the names of the model
Underscored(name) ==
    CASE name = "Nexon XZ" -> "Nexon_XZ"
      [] name = "City VX" -> "City_VX"
      [] name = "Wireless Charging" -> "Wireless_Charging"
      [] OTHER -> name

NodesOfType(kg, type) == {id \in kg.nodes : kg.properties[id].type = type}

RECURSIVE ExtractFeatures(_, _, _)
\* the per-feature loop of PreferenceExtractionAgent.execute
ExtractFeatures(kg, user_id, features) ==
    IF features = <<>> THEN kg
    ELSE LET feature_id == Underscored("pref_" \o user_id \o "_feature_" \o Head(features))
         IN  ExtractFeatures(
                 add_edge(add_node(kg, feature_id, "Preference", Head(features)),
                          user_id, feature_id, "PREFERS"),
                 user_id, Tail(features))

RECURSIVE ExtractPreferences(_, _, _, _)
\* the loop over preferences.items() of PreferenceExtractionAgent.execute
ExtractPreferences(kg, user_id, preferences, keys) ==
    IF keys = <<>> THEN kg
    ELSE LET pref_key == Head(keys)
             pref_value == preferences[pref_key]
             pref_id == "pref_" \o user_id \o "_" \o pref_key
             with_pref == add_edge(add_node(kg, pref_id, "Preference", pref_key),
                                   user_id, pref_id, "PREFERS")
         IN  IF \/ pref_key = "features" /\ pref_value = <<>>
                \/ pref_key = "fuel_type" /\ pref_value \in {None, "Any"}
             THEN ExtractPreferences(kg, user_id, preferences, Tail(keys))
             ELSE ExtractPreferences(
                      IF pref_key = "features"
                      THEN ExtractFeatures(with_pref, user_id, pref_value) ELSE with_pref,
                      user_id, preferences, Tail(keys))

RECURSIVE ExtractUseCases(_, _, _)
\* the use_cases loop of PreferenceExtractionAgent.execute
ExtractUseCases(kg, user_id, use_cases) ==
    IF use_cases = <<>> THEN kg
    ELSE LET use_case_id == Underscored("usecase_" \o user_id \o "_" \o Head(use_cases))
             with_node == IF use_case_id \in kg.nodes THEN kg
                          ELSE add_node(kg, use_case_id, "UseCase", Head(use_cases))
         IN  ExtractUseCases(add_edge_unless_present(with_node, user_id, use_case_id, "PREFERS"),
                             user_id, Tail(use_cases))

\* the use cases VariantPruningAgent infers for a row
InferredUseCases(row) ==
    (IF row.body_type \in {"suv", "muv"} /\ row.seating >= 5 THEN <<"family_trips">> ELSE <<>>)
    \o (IF row.body_type \in {"hatchback", "sedan"} /\ row.mileage # ""
        THEN <<"city_commute">> ELSE <<>>)
    \o (IF row.max_power # "" THEN <<"highway">> ELSE <<>>)

RECURSIVE LinkUseCases(_, _, _, _)
\* the SUITABLE_FOR edges of a variant: to the global node of each inferred use case and
\* to the session's UseCase nodes of that name (indexed before the loop over the rows)
LinkUseCases(kg, variant_id, use_cases, indexed) ==
    IF use_cases = <<>> THEN kg
    ELSE LET use_case_id == "usecase_" \o Head(use_cases)
             with_node == IF use_case_id \in kg.nodes THEN kg
                          ELSE add_node(kg, use_case_id, "UseCase", Head(use_cases))
             linked == SetToSeq({use_case_id}
                                \cup {id \in indexed : kg.properties[id].name = Head(use_cases)})
             Link[k \in 0..Len(linked)] ==
                 IF k = 0 THEN with_node
                 ELSE add_edge_unless_present(Link[k - 1], variant_id, linked[k], "SUITABLE_FOR")
         IN  LinkUseCases(Link[Len(linked)], variant_id, Tail(use_cases), indexed)

RECURSIVE AddViolations(_, _, _, _)
\* the VIOLATES edges of a row: for every soft-violation entry of the variant id, an edge
\* per violation whose Preference node exists
AddViolations(kg, variant_id, user_id, violations) ==
    IF violations = <<>> THEN kg
    ELSE LET pref_id == "pref_" \o user_id \o "_" \o Head(violations)
         IN  AddViolations(IF pref_id \in kg.nodes
                           THEN add_edge(kg, variant_id, pref_id, "VIOLATES") ELSE kg,
                           variant_id, user_id, Tail(violations))

RECURSIVE PruneRows(_, _, _, _, _)
\* the loop over variants_df.iterrows() of VariantPruningAgent.execute from row `idx` on;
\* the filter keeps a variant id or removes it, and reports the soft violations per row
PruneRows(kg, user_id, variants_df, idx, indexed) ==
    IF idx > Len(variants_df) THEN kg
    ELSE LET row == variants_df[idx]
             variant_id == "variant_" \o Underscored(row.variant)
             entries == Flatten([j \in DOMAIN variants_df |->
                            IF variants_df[j].variant = row.variant /\ variants_df[j].kept
                            THEN variants_df[j].violations ELSE <<>>])
             with_node == add_node(kg, variant_id, "Variant", row.variant)
         IN  IF \E j \in DOMAIN variants_df :
                    variants_df[j].variant = row.variant /\ ~variants_df[j].kept
             THEN PruneRows(kg, user_id, variants_df, idx + 1, indexed)
             ELSE PruneRows(
                      AddViolations(LinkUseCases(with_node, variant_id, InferredUseCases(row),
                                                 indexed),
                                    variant_id, user_id, entries),
                      user_id, variants_df, idx + 1, indexed)

RECURSIVE MatchVariants(_, _, _)
\* the loop over the Variant nodes of CarMatchmakerAgent.execute; matches[v] is the list
\* of matched preference ids of _evaluate_variant_match, empty for a score of 0
MatchVariants(kg, variants, matches) ==
    IF variants = <<>> THEN kg
    ELSE LET found == matches[Head(variants)]
             Link[k \in 0..Len(found)] ==
                 IF k = 0 THEN kg
                 ELSE add_edge_unless_present(Link[k - 1], Head(variants), found[k],
                                              "HAS_FEATURE")
         IN  MatchVariants(Link[Len(found)], Tail(variants), matches)

\* a contains-match of _find_variant_fuzzy on lower-cased, underscored names
NamesOverlap(variant_name, node_name) ==
    \/ variant_name = node_name
    \/ <<variant_name, node_name>> \in {<<"Nexon", "Nexon XZ">>, <<"nexon xz", "Nexon XZ">>}

\* an id for every name of the history, whether or not the graph has the node
HistoryVariantId_Unchecked(kg, variant_name) == "variant_" \o Underscored(variant_name)

\* the variant id ContextAwarenessAgent resolves a history entry to, or None
HistoryVariantId(kg, variant_name) ==
    LET variant_id == "variant_" \o Underscored(variant_name)
        fuzzy == {id \in NodesOfType(kg, "Variant") :
                     NamesOverlap(variant_name, kg.properties[id].name)}
    IN  IF variant_id \in kg.nodes THEN variant_id
        ELSE IF fuzzy # {} THEN CHOOSE id \in fuzzy : TRUE
        ELSE None

RECURSIVE TrackHistory(_, _, _)
\* the loop over conversation_history of ContextAwarenessAgent.execute
TrackHistory(kg, user_id, history) ==
    IF history = <<>> THEN kg
    ELSE LET entry == Head(history)
             variant_id == HistoryVariantId(kg, entry.variant)
             type == CASE entry.action = "rejected" -> "REJECTED"
                       [] entry.action \in {"viewed", "compared"} -> "VIEWED"
                       [] entry.action \in {"shortlisted", "interested"} -> "SHORTLISTED"
                       [] OTHER -> None
         IN  TrackHistory(IF variant_id = None \/ type = None THEN kg
                          ELSE add_edge_unless_present(kg, user_id, variant_id, type),
                          user_id, Tail(history))

\* the catalog rows of a session: two rows share the variant name "Nexon XZ"
GraphRows ==
    <<[variant |-> "Nexon XZ", body_type |-> "suv", seating |-> 5, max_power |-> "118 bhp",
       mileage |-> ""],
      [variant |-> "City VX", body_type |-> "sedan", seating |-> 5, max_power |-> "",
       mileage |-> "17.8 kmpl"],
      [variant |-> "Nexon XZ", body_type |-> "suv", seating |-> 5, max_power |-> "",
       mileage |-> "17.0 kmpl"]>>

\* the inputs of a session: preferences, use cases, the data frame with the verdict of
\* the filter on every row, and the conversation history
GraphRequests ==
    {[session_id |-> "s1",
      extracted_preferences |-> [budget |-> <<80, 150>>, fuel_type |-> fuel,
                                 features |-> features],
      use_cases |-> use_cases,
      variants_df |-> [i \in 1..rows |-> GraphRows[i] @@ [kept |-> i # removed,
                                                           violations |-> violations[i]]],
      conversation_history |-> history] :
        fuel \in {"Any", "Petrol"},
        features \in {<<>>, <<"Sunroof">>, <<"Sunroof", "Sunroof">>, <<"Wireless Charging">>},
        use_cases \in {<<>>, <<"family_trips">>, <<"family_trips", "family_trips">>},
        rows \in 0..3, removed \in {0, 2},
        violations \in [1..3 -> {<<>>, <<"fuel_type">>, <<"fuel_type", "features">>}],
        history \in {<<>>,
                     <<[action |-> "rejected", variant |-> "Nexon XZ"],
                       [action |-> "rejected", variant |-> "Nexon XZ"]>>,
                     <<[action |-> "viewed", variant |-> "City VX"],
                       [action |-> "compared", variant |-> "Nexon"]>>,
                     <<[action |-> "rejected", variant |-> "City VX"],
                       [action |-> "shortlisted", variant |-> "Nexon XZ"]>>,
                     <<[action |-> "shortlisted", variant |-> "Ghost"]>>}}

\* KnowledgeGraph() at the start of a run
GraphStart ==
    /\ pc = "idle"
    /\ \E inputs \in GraphRequests : request' = inputs
    /\ graph' = [nodes |-> {}, properties |-> <<>>, edges |-> <<>>]
    /\ pc' = "extract"
    /\ UNCHANGED <<call, context, ranked_variants, agent_trace, scoring, raised, result,
                   heap, runs, reads, adaptive_scoring, handlers>>

\* Stage 1: PreferenceExtractionAgent.execute
GraphStage1 ==
    /\ pc = "extract"
    /\ LET user_id == request.session_id
           with_user == IF user_id \in graph.nodes THEN graph
                        ELSE add_node(graph, user_id, "User", user_id)
       IN  graph' = ExtractUseCases(
                        ExtractPreferences(with_user, user_id, request.extracted_preferences,
                                           <<"budget", "fuel_type", "features">>),
                        user_id, request.use_cases)
    /\ pc' = "prune"
    /\ UNCHANGED <<call, request, context, ranked_variants, agent_trace, scoring, raised,
                   result, heap, runs, reads, adaptive_scoring, handlers>>

\* Stage 2: VariantPruningAgent.execute
GraphStage2 ==
    /\ pc = "prune"
    /\ graph' = PruneRows(graph, request.session_id, request.variants_df, 1,
                          NodesOfType(graph, "UseCase"))
    /\ pc' = "match"
    /\ UNCHANGED <<call, request, context, ranked_variants, agent_trace, scoring, raised,
                   result, heap, runs, reads, adaptive_scoring, handlers>>

\* Stage 3: CarMatchmakerAgent.execute; the variants with a positive match_score are the
\* candidates, and a candidate matches nothing, the nodes the user PREFERS, or (a
\* preference matched on two grounds) those nodes twice
GraphStage3 ==
    /\ pc = "match"
    /\ LET user_id == request.session_id
           links == get_neighbors(graph, user_id, "PREFERS", "outgoing")
           variants == SetToSeq(NodesOfType(graph, "Variant"))
       IN  IF user_id \notin graph.nodes \/ links = <<>>
           THEN graph' = graph /\ context' = [candidate_variants |-> <<>>]
           ELSE \E found \in {<<>>, links, links \o links} :
                \E candidates \in SUBSET Range(variants) :
                   /\ graph' = MatchVariants(graph, variants,
                          [v \in Range(variants) |-> IF v \in candidates THEN found ELSE <<>>])
                   /\ context' = [candidate_variants |->
                          SeqFilter(variants, [i \in DOMAIN variants |->
                                                  variants[i] \in candidates])]
    /\ pc' = "tradeoff"
    /\ UNCHANGED <<call, request, ranked_variants, agent_trace, scoring, raised,
                   result, heap, runs, reads, adaptive_scoring, handlers>>

\* Stage 4: TradeOffNegotiatorAgent.execute with the trade-offs it detects
GraphStage4 ==
    /\ pc = "tradeoff"
    /\ \E tradeoffs \in 0..2 :
          LET user_id == request.session_id
              Add[idx \in 0..tradeoffs] ==
                  IF idx = 0 THEN graph
                  ELSE LET node_id == "tradeoff_" \o user_id \o "_" \o ToString(idx)
                           with_node == add_node(Add[idx - 1], node_id, "TradeOff", node_id)
                       IN  IF user_id \in with_node.nodes
                           THEN add_edge_unless_present(with_node, user_id, node_id,
                                                        "INVOLVES_TRADEOFF")
                           ELSE with_node
          IN  graph' = Add[tradeoffs]
    /\ pc' = "history"
    /\ UNCHANGED <<call, request, context, ranked_variants, agent_trace, scoring, raised,
                   result, heap, runs, reads, adaptive_scoring, handlers>>

\* rejected_variants of ContextAwarenessAgent.execute: an id is appended with every
\* REJECTED edge the stage adds
RejectedVariants(kg, user_id) ==
    LET added == SeqFilter(kg.edges, [i \in DOMAIN kg.edges |->
                     kg.edges[i].source_id = user_id /\ kg.edges[i].type = "REJECTED"])
    IN  [i \in DOMAIN added |-> added[i].target_id]

\* the candidates are left as they are
FilterRejected_Off(candidate_variants, rejected_variants) == candidate_variants

\* `[v for v in candidate_variants if v not in rejected_variants]`
FilterRejected(candidate_variants, rejected_variants) ==
    SeqFilter(candidate_variants, [i \in DOMAIN candidate_variants |->
                  candidate_variants[i] \notin Range(rejected_variants)])

\* Stage 5: ContextAwarenessAgent.execute
GraphStage5 ==
    /\ pc = "history"
    /\ \E tracked \in {IF request.session_id \notin graph.nodes THEN graph
                        ELSE TrackHistory(graph, request.session_id,
                                          request.conversation_history)} :
          /\ graph' = tracked
          /\ context' = [context EXCEPT !.candidate_variants =
                            FilterRejected(@, RejectedVariants(tracked, request.session_id))]
    /\ pc' = "built"
    /\ UNCHANGED <<call, request, ranked_variants, agent_trace, scoring, raised,
                   result, heap, runs, reads, adaptive_scoring, handlers>>

\* the rows of the data frame handed to the external scoring function: the rows named
\* like the Variant node of a candidate
CandidateRows(kg, context_, variants_df) ==
    SeqFilter(variants_df, [i \in DOMAIN variants_df |->
        \E k \in DOMAIN context_.candidate_variants :
            /\ context_.candidate_variants[k] \in kg.nodes
            /\ kg.properties[context_.candidate_variants[k]].name = variants_df[i].variant])

NextSessionGraph ==
    GraphStart \/ GraphStage1 \/ GraphStage2 \/ GraphStage3 \/ GraphStage4 \/ GraphStage5

SpecSessionGraph == Init /\ [][NextSessionGraph]_vars

(***************************************************************************)
(* enhanced_filtering.py, GraphPathReasoner.  SpecReasoner follows one     *)
(* request's path reasoner from Stage 3 on: `graph` is the session graph   *)
(* (edges carry match_score and severity, Preference nodes key and weight),*)
(* `context` holds the reasoner's _path_cache, the evaluated variants and  *)
(* the candidates, and `agent_trace` lists the calls of                    *)
(* score_variant_by_paths with what each returned.  Scores and weights are *)
(* in units of 1/100.                                                      *)
(***************************************************************************)
\* the calls of score_variant_by_paths a request of the model makes at most
MaxCalls == 4

\* KnowledgeGraph.get_edges_from(source_id, edge_type)
get_edges_from(kg, source_id, edge_type) ==
    SeqFilter(kg.edges, [i \in DOMAIN kg.edges |->
        kg.edges[i].source_id = source_id /\ kg.edges[i].type = edge_type])

\* KnowledgeGraph.get_edge: the first edge of get_edges(source_id, target_id, edge_type)
get_edge(kg, source_id, target_id, edge_type) ==
    LET i == CHOOSE k \in DOMAIN kg.edges :
                 /\ kg.edges[k].source_id = source_id /\ kg.edges[k].target_id = target_id
                 /\ kg.edges[k].type = edge_type
                 /\ \A j \in 1..(k - 1) : ~(/\ kg.edges[j].source_id = source_id
                                            /\ kg.edges[j].target_id = target_id
                                            /\ kg.edges[j].type = edge_type)
    IN  kg.edges[i]

\* the (key, score) entries score_variant_by_paths writes into path_scores, in order,
\* with preference_nodes the neighbours get_neighbors(user_id, 'PREFERS') returns
PathEntries(kg, variant_id, preference_nodes) ==
    LET matched == SeqFilter(preference_nodes, [i \in DOMAIN preference_nodes |->
                       has_edge(kg, variant_id, preference_nodes[i], "HAS_FEATURE")])
        violation_edges == get_edges_from(kg, variant_id, "VIOLATES")
        violated == SeqFilter(violation_edges, [i \in DOMAIN violation_edges |->
                        violation_edges[i].target_id \in kg.nodes])
        use_cases == SeqFilter(preference_nodes, [i \in DOMAIN preference_nodes |->
                         /\ kg.properties[preference_nodes[i]].type = "UseCase"
                         /\ has_edge(kg, variant_id, preference_nodes[i], "SUITABLE_FOR")])
        tradeoff_edges == get_edges_from(kg, variant_id, "INVOLVES_TRADEOFF")
        tradeoffs == SeqFilter(tradeoff_edges, [i \in DOMAIN tradeoff_edges |->
                         tradeoff_edges[i].target_id \in kg.nodes])
    IN  [i \in DOMAIN matched |->
            [key |-> "pref_" \o kg.properties[matched[i]].key,
             score |-> (kg.properties[matched[i]].weight
                        * get_edge(kg, variant_id, matched[i], "HAS_FEATURE").match_score)
                       \div 100]]
        \o [i \in DOMAIN violated |->
               [key |-> "violation_" \o violated[i].target_id,
                score |-> CASE violated[i].severity = "high" -> -1000
                            [] violated[i].severity = "low" -> -250
                            [] OTHER -> -500]]
        \o [i \in DOMAIN use_cases |-> [key |-> "usecase_" \o use_cases[i], score |-> 300]]
        \o [i \in DOMAIN tradeoffs |->
               [key |-> "tradeoff_" \o tradeoffs[i].target_id,
                score |-> kg.properties[tradeoffs[i].target_id].net_value]]

RECURSIVE TotalScore(_)
\* total_score after the entries: every score is added
TotalScore(entries) ==
    IF entries = <<>> THEN 0 ELSE Head(entries).score + TotalScore(Tail(entries))

\* the result score_variant_by_paths computes from the graph: path_scores keeps the last
\* score written under a key, total_path_score adds every score
ComputePaths(kg, variant_id, user_id) ==
    CHOOSE out \in
        {[path_scores |-> {entries[i] : i \in {k \in DOMAIN entries :
                              \A j \in (k + 1)..Len(entries) : entries[j].key # entries[k].key}},
          total_path_score |-> TotalScore(entries)] :
         entries \in {PathEntries(kg, variant_id, preference_nodes) :
                         preference_nodes \in {get_neighbors(kg, user_id, "PREFERS",
                                                             "outgoing")}}} : TRUE

\* a reasoner whose cache is never consulted
GraphPathReasoner_score_variant_by_paths_Uncached(reasoner, kg, variant_id, user_id, preferences) ==
    CHOOSE out \in
        {[result |-> paths, computed |-> TRUE,
          reasoner |-> [reasoner EXCEPT !._path_cache =
                           {e \in @ : e.cache_key # <<variant_id, user_id>>}
                           \cup {[cache_key |-> <<variant_id, user_id>>, result |-> paths]}]] :
         paths \in {ComputePaths(kg, variant_id, user_id)}} : TRUE

\* GraphPathReasoner.score_variant_by_paths: the result, whether the call computed it,
\* and the reasoner after the call
GraphPathReasoner_score_variant_by_paths(reasoner, kg, variant_id, user_id, preferences) ==
    LET cache_key == <<variant_id, user_id>>
        hits == {e \in reasoner._path_cache : e.cache_key = cache_key}
    IN  IF hits # {}
        THEN [result |-> (CHOOSE e \in hits : TRUE).result, computed |-> FALSE,
              reasoner |-> reasoner]
        ELSE CHOOSE out \in
                 {[result |-> paths, computed |-> TRUE,
                   reasoner |-> [reasoner EXCEPT !._path_cache =
                                    @ \cup {[cache_key |-> cache_key, result |-> paths]}]] :
                  paths \in {ComputePaths(kg, variant_id, user_id)}} : TRUE

\* the nodes of a session graph after Stage 2, with the properties the reasoner reads
ReasonerNodes ==
    [s1 |-> [type |-> "User", key |-> None, weight |-> 0, net_value |-> 0],
     pref_s1_budget |-> [type |-> "Preference", key |-> "budget", weight |-> 1225,
                         net_value |-> 0],
     pref_s1_fuel_type |-> [type |-> "Preference", key |-> "fuel_type", weight |-> 980,
                            net_value |-> 0],
     usecase_s1_family_trips |-> [type |-> "UseCase", key |-> None, weight |-> 367,
                                  net_value |-> 0],
     variant_Nexon_XZ |-> [type |-> "Variant", key |-> None, weight |-> 0, net_value |-> 0],
     variant_City_VX |-> [type |-> "Variant", key |-> None, weight |-> 0, net_value |-> 0]]

\* an edge with its properties
Edge(source_id, target_id, type, match_score, severity) ==
    [source_id |-> source_id, target_id |-> target_id, type |-> type,
     match_score |-> match_score, severity |-> severity]

\* the session graphs Stage 3 starts from: the PREFERS edges of Stage 1 and the
\* SUITABLE_FOR and VIOLATES edges of Stage 2
ReasonerGraphs ==
    {[nodes |-> DOMAIN ReasonerNodes, properties |-> ReasonerNodes,
      edges |-> <<Edge("s1", "pref_s1_budget", "PREFERS", NoNumber, None),
                  Edge("s1", "pref_s1_fuel_type", "PREFERS", NoNumber, None)>>
                \o use_case \o suitable \o violates] :
        use_case \in {<<>>, <<Edge("s1", "usecase_s1_family_trips", "PREFERS", NoNumber,
                                   None)>>},
        suitable \in {<<>>, <<Edge("variant_Nexon_XZ", "usecase_s1_family_trips",
                                   "SUITABLE_FOR", NoNumber, None)>>},
        violates \in {<<>>, <<Edge("variant_City_VX", "pref_s1_fuel_type", "VIOLATES",
                                   NoNumber, "medium")>>}}

\* run_recommendation_pipeline constructs the graph and its path reasoner, and the first
\* two stages fill the graph
ReasonerStart ==
    /\ pc = "idle"
    /\ \E kg \in ReasonerGraphs : graph' = kg
    /\ context' = [session_id |-> "s1", path_reasoner |-> [_path_cache |-> {}],
                   evaluated |-> {}, candidate_variants |-> <<>>]
    /\ pc' = "matching"
    /\ UNCHANGED <<call, request, ranked_variants, agent_trace, scoring, raised, result,
                   heap, runs, reads, adaptive_scoring, handlers>>

\* a call of score_variant_by_paths by `caller`: the reasoner after the call and the list
\* of calls with the call and what it returned
ScoreCall(caller, variant_id, preferences) ==
    CHOOSE scored \in
        {[path_reasoner |-> out.reasoner,
          calls |-> Append(agent_trace,
                       [caller |-> caller, variant_id |-> variant_id,
                        user_id |-> context.session_id, preferences |-> preferences,
                        result |-> out.result, computed |-> out.computed])] :
         out \in {GraphPathReasoner_score_variant_by_paths(
                     context.path_reasoner, graph, variant_id, context.session_id,
                     preferences)}} : TRUE

RECURSIVE AddFeatureEdges(_, _, _, _)
\* the HAS_FEATURE edges of a candidate, each added unless has_edge finds it
AddFeatureEdges(kg, variant_id, matches, match_score) ==
    IF matches = <<>> THEN kg
    ELSE AddFeatureEdges(
             IF has_edge(kg, variant_id, Head(matches), "HAS_FEATURE") THEN kg
             ELSE [kg EXCEPT !.edges = Append(@, Edge(variant_id, Head(matches),
                                                      "HAS_FEATURE", match_score, None))],
             variant_id, Tail(matches), match_score)

\* the body of the loop of CarMatchmakerAgent.execute for one Variant node:
\* _evaluate_variant_match scores the paths of the variant, and a variant with a positive
\* match_score becomes a candidate and gets its HAS_FEATURE edges
MatchVariant ==
    /\ pc = "matching"
    /\ Len(agent_trace) < MaxCalls
    /\ \E variant_id \in NodesOfType(graph, "Variant") \ context.evaluated :
       \E match_score \in {0, 400, 1225} :
       \E matches \in SUBSET {"pref_s1_budget", "pref_s1_fuel_type"} :
       \E scored \in {ScoreCall("matchmaker", variant_id, "preferences_dict")} :
          /\ agent_trace' = scored.calls
          /\ context' = [context EXCEPT
                            !.path_reasoner = scored.path_reasoner,
                            !.evaluated = @ \cup {variant_id},
                            !.candidate_variants =
                                IF match_score > 0 THEN Append(@, variant_id) ELSE @]
          /\ graph' = IF match_score > 0
                      THEN AddFeatureEdges(graph, variant_id, SetToSeq(matches), match_score)
                      ELSE graph
    /\ UNCHANGED <<call, pc, request, ranked_variants, scoring, raised, result,
                   heap, runs, reads, adaptive_scoring, handlers>>

\* Stages 4 and 5 add a TradeOff node with its edge from the user, or a REJECTED edge
LaterStages ==
    /\ pc = "matching"
    /\ NodesOfType(graph, "Variant") \subseteq context.evaluated
    /\ \/ /\ "tradeoff_s1_1" \notin graph.nodes
          /\ graph' = [graph EXCEPT
                 !.nodes = @ \cup {"tradeoff_s1_1"},
                 !.properties = ("tradeoff_s1_1" :> [type |-> "TradeOff", key |-> None,
                                                     weight |-> 0, net_value |-> 0]) @@ @,
                 !.edges = Append(@, Edge("s1", "tradeoff_s1_1", "INVOLVES_TRADEOFF",
                                          NoNumber, None))]
       \/ \E variant_id \in NodesOfType(graph, "Variant") :
             /\ ~has_edge(graph, "s1", variant_id, "REJECTED")
             /\ graph' = [graph EXCEPT
                    !.edges = Append(@, Edge("s1", variant_id, "REJECTED", NoNumber, None))]
    /\ UNCHANGED <<call, pc, request, context, ranked_variants, agent_trace, scoring, raised,
                   result, heap, runs, reads, adaptive_scoring, handlers>>

\* the post-scoring blend asks the context's reasoner for the paths of a candidate
BlendVariant ==
    /\ pc = "matching"
    /\ Len(agent_trace) < MaxCalls
    /\ NodesOfType(graph, "Variant") \subseteq context.evaluated
    /\ \E i \in DOMAIN context.candidate_variants :
       \E scored \in {ScoreCall("blend", context.candidate_variants[i],
                                "extracted_preferences")} :
          /\ agent_trace' = scored.calls
          /\ context' = [context EXCEPT !.path_reasoner = scored.path_reasoner]
    /\ UNCHANGED <<call, pc, request, graph, ranked_variants, scoring, raised, result,
                   heap, runs, reads, adaptive_scoring, handlers>>

\* AdvancedReasoningAgent and ExplanationAgent ask the same reasoner
LaterCall ==
    /\ pc = "matching"
    /\ Len(agent_trace) < MaxCalls
    /\ NodesOfType(graph, "Variant") \subseteq context.evaluated
    /\ \E variant_id \in NodesOfType(graph, "Variant") :
       \E scored \in {ScoreCall("agent", variant_id, "extracted_preferences")} :
          /\ agent_trace' = scored.calls
          /\ context' = [context EXCEPT !.path_reasoner = scored.path_reasoner]
    /\ UNCHANGED <<call, pc, request, graph, ranked_variants, scoring, raised, result,
                   heap, runs, reads, adaptive_scoring, handlers>>

NextReasoner == ReasonerStart \/ MatchVariant \/ LaterStages \/ BlendVariant \/ LaterCall

SpecReasoner == Init /\ [][NextReasoner]_vars

(***************************************************************************)
(* SpecEnforcer: calls of RobustDiversityEnforcer.enforce_diversity.       *)
(***************************************************************************)
\* the picks of the round-robin loop of enforce_diversity
RoundRobinPicks(variants, top_k, max_per_brand) ==
    Take(RoundRobin(BrandGroups(variants), 1, Min2(max_per_brand, 2 * top_k + 1)), top_k)

CallEnforceDiversity ==
    /\ call = NoCall
    /\ \E variants \in LabelledPools, top_k \in {2, 3, 5}, max_per_brand \in {1, 2} :
          call' = [fn |-> "enforce_diversity", variants |-> variants, top_k |-> top_k,
                   max_per_brand |-> max_per_brand,
                   picks |-> RoundRobinPicks(variants, top_k, max_per_brand),
                   result |-> enforce_diversity(variants, top_k, max_per_brand)]
    /\ UNCHANGED pipeline_vars

SpecEnforcer == Init /\ [][CallEnforceDiversity]_vars

(***************************************************************************)
(* SpecFilter: calls of EnhancedFilter.filter_variants on the catalog,     *)
(* with sliders and exploration rates the user set.                        *)
(***************************************************************************)
\* the dimensions filter_variants checks against a row, besides budget and features
FilterDimensions == {"fuel_type", "body_type", "transmission", "seating"}

CallFilterVariants ==
    /\ call = NoCall
    /\ \E key \in FilterDimensions, priority \in {50, 90, 100},
          exploration_rate \in {0, 10, 35, 50},
          must_have_preferences \in {{"budget"}, {"budget", "fuel_type"}},
          preferences \in {[budget |-> <<80, 150>>, fuel_type |-> "Diesel",
                            body_type |-> "Any", transmission |-> "Any", seating |-> 5,
                            features |-> <<>>],
                           [budget |-> <<80, 150>>, fuel_type |-> "Any",
                            body_type |-> "Sedan", transmission |-> "Manual", seating |-> 5,
                            features |-> <<>>],
                           [budget |-> <<80, 150>>, fuel_type |-> "Any",
                            body_type |-> "Any", transmission |-> "Any", seating |-> 7,
                            features |-> <<>>]} :
          LET controls == [Controls("any", {}, {}, {},
                                    [DefaultPriorities EXCEPT ![key] = priority])
                              EXCEPT !.exploration_rate = exploration_rate,
                                     !.exploration_rate_set = TRUE]
              context_ == [user_control_config |-> controls,
                           must_have_preferences |-> must_have_preferences,
                           must_have_features |-> {}]
          IN  call' = [fn |-> "filter_variants", preferences |-> preferences,
                       context |-> context_,
                       result |-> filter_variants(preferences, context_)]
    /\ UNCHANGED pipeline_vars

SpecFilter == Init /\ [][CallFilterVariants]_vars

(***************************************************************************)
(* dynamic_scoring_config.py: the adaptive scoring system called by one    *)
(* thread at a time.  update_from_feedback runs from its first statement   *)
(* to its last before the next call starts; get_weights is the call that   *)
(* POST /api/recommend_with_graph makes for a request.  Weights are in percent, *)
(* the blended diversity weight in units of 1/1000.                        *)
(***************************************************************************)
\* the number of update_from_feedback calls of a sequence
MaxFeedback == 5

\* the brands of the variants the entries of a history list under `key`
FeedbackBrands(history, key) ==
    UNION {{SplitFirst(v) : v \in Range(history[i][key])} : i \in DOMAIN history}

\* the history of a session after `feedback` is appended to it
HistoryWith(system, session_id, feedback) ==
    IF session_id \in DOMAIN system.user_feedback_history
    THEN Append(system.lists[system.user_feedback_history[session_id]], feedback)
    ELSE <<feedback>>

\* update_from_feedback without the min(0.5, ...) of the adjustment
update_from_feedback_Unclamped(system, session_id, feedback) ==
    LET created == IF session_id \in DOMAIN system.user_feedback_history
                   THEN system
                   ELSE [system EXCEPT
                            !.lists = Append(@, <<>>),
                            !.user_feedback_history =
                                (session_id :> (Len(system.lists) + 1)) @@ @]
        appended == [created EXCEPT
                        !.lists[created.user_feedback_history[session_id]] =
                            Append(@, feedback)]
    IN  CHOOSE out \in
            {IF rejected_brands # {} /\ Cardinality(accepted_brands) > Cardinality(rejected_brands)
             THEN [appended EXCEPT
                      !.learned_weights.diversity_weight = @ + 5,
                      !.learned_weights.max_variants_per_brand = Max2(1, @ - 1)]
             ELSE appended :
                accepted_brands \in {FeedbackBrands(HistoryWith(system, session_id, feedback),
                                                    "accepted_variants")},
                rejected_brands \in {FeedbackBrands(HistoryWith(system, session_id, feedback),
                                                    "rejected_variants")}} : TRUE

\* AdaptiveScoringSystem.update_from_feedback: the system after the call
update_from_feedback(system, session_id, feedback) ==
    LET created == IF session_id \in DOMAIN system.user_feedback_history
                   THEN system
                   ELSE [system EXCEPT
                            !.lists = Append(@, <<>>),
                            !.user_feedback_history =
                                (session_id :> (Len(system.lists) + 1)) @@ @]
        appended == [created EXCEPT
                        !.lists[created.user_feedback_history[session_id]] =
                            Append(@, feedback)]
    IN  CHOOSE out \in
            {IF rejected_brands # {} /\ Cardinality(accepted_brands) > Cardinality(rejected_brands)
             THEN [appended EXCEPT
                      !.learned_weights.diversity_weight = Min2(50, @ + 5),
                      !.learned_weights.max_variants_per_brand = Max2(1, @ - 1)]
             ELSE appended :
                accepted_brands \in {FeedbackBrands(HistoryWith(system, session_id, feedback),
                                                    "accepted_variants")},
                rejected_brands \in {FeedbackBrands(HistoryWith(system, session_id, feedback),
                                                    "rejected_variants")}} : TRUE

\* the diversity weight DynamicScoringWeights.from_user_preferences derives from the
\* controls, after the normalisation by diversity_weight + relevance_weight
diversity_weight_from_controls(controls) ==
    LET weights ==
            IF controls.diversity_mode = "maximum_diversity"
            THEN [diversity_weight |-> 70, relevance_weight |-> 30]
            ELSE IF controls.diversity_mode = "maximum_relevance"
            THEN [diversity_weight |-> 5, relevance_weight |-> 95]
            ELSE [diversity_weight |-> 30, relevance_weight |-> 70]
        total == weights.diversity_weight + weights.relevance_weight
    IN  IF total > 0 THEN (weights.diversity_weight * 100) \div total
        ELSE weights.diversity_weight

\* AdaptiveScoringSystem.get_weights: blend_factor 0.3 of the learned weights and 0.7 of
\* the weights of the request; int() truncates
get_weights(system, user_prefs, user_control_config) ==
    LET base_weights == from_user_preferences(user_prefs, user_control_config)
    IN  [diversity_weight |->
             3 * system.learned_weights.diversity_weight
             + 7 * diversity_weight_from_controls(user_control_config),
         max_variants_per_brand |->
             (3 * system.learned_weights.max_variants_per_brand
              + 7 * base_weights.max_variants_per_brand) \div 10]

\* the controls of the requests that ask for weights
WeightControls ==
    {[Controls(mode, {}, {}, {}, DefaultPriorities) EXCEPT !.diversity_mode = d] :
        mode \in {"any", "strict"},
        d \in {"balanced", "maximum_diversity", "maximum_relevance"}}

\* the server starts to take requests; request.feedback_log lists the feedback posted
LearningStart ==
    /\ pc = "idle"
    /\ pc' = "serving"
    /\ request' = [feedback_log |-> <<>>]
    /\ UNCHANGED <<call, context, graph, ranked_variants, agent_trace, scoring, raised,
                   result, heap, runs, reads, adaptive_scoring, handlers>>

\* POST /api/feedback handled from start to end: capture_feedback calls
\* adaptive_scoring.update_from_feedback(session_id, feedback)
CallUpdateFromFeedback ==
    /\ pc = "serving"
    /\ Len(request.feedback_log) < MaxFeedback
    /\ \E session_id \in Sessions, feedback \in FeedbackChoices :
          /\ adaptive_scoring' = update_from_feedback(adaptive_scoring, session_id, feedback)
          /\ request' = [request EXCEPT
                            !.feedback_log = Append(@, [session_id |-> session_id,
                                                        feedback |-> feedback])]
          /\ call' = [fn |-> "update_from_feedback", session_id |-> session_id,
                      feedback |-> feedback,
                      learned_before |-> adaptive_scoring.learned_weights]
    /\ UNCHANGED <<pc, context, graph, ranked_variants, agent_trace, scoring, raised,
                   result, heap, runs, reads, handlers>>

\* POST /api/recommend_with_graph for a session: adaptive_scoring.get_weights(preferences, controls)
CallGetWeights ==
    /\ pc = "serving"
    /\ \E session_id \in Sessions, user_control_config \in WeightControls :
          call' = [fn |-> "get_weights", session_id |-> session_id,
                   user_control_config |-> user_control_config,
                   result |-> get_weights(adaptive_scoring, <<>>, user_control_config)]
    /\ UNCHANGED <<pc, request, context, graph, ranked_variants, agent_trace, scoring,
                   raised, result, heap, runs, reads, adaptive_scoring, handlers>>

NextLearning ==
    \/ LearningStart
    \/ CallUpdateFromFeedback
    \/ CallGetWeights

SpecLearning == Init /\ [][NextLearning]_vars

(***************************************************************************)
(* knowledge_graph.py: the KnowledgeGraph object with its edge list and    *)
(* its two indices.  A dictionary is the sequence of its (key, value)      *)
(* entries in insertion order; an Edge is the record of its source_id,     *)
(* target_id and type.                                                     *)
(***************************************************************************)
\* the add_edge calls of a sequence
MaxIndexed == 3

\* KnowledgeGraph.__init__
KnowledgeGraph_init ==
    [nodes |-> {}, edges |-> <<>>, edge_index |-> <<>>, reverse_edge_index |-> <<>>]

\* `key in d` for a dictionary
HasKey(d, key) == \E i \in DOMAIN d : d[i].key = key

\* d[key] for a key of the dictionary
ValueOf(d, key) == d[CHOOSE i \in DOMAIN d : d[i].key = key].value

\* d[key] = value: a new key goes to the end, a key of the dictionary keeps its place
SetKey(d, key, value) ==
    IF HasKey(d, key)
    THEN [i \in DOMAIN d |-> IF d[i].key = key THEN [key |-> key, value |-> value] ELSE d[i]]
    ELSE Append(d, [key |-> key, value |-> value])

\* the three statements that put an edge into one index under the id of one of its ends
Indexed(index, id, edge) ==
    LET by_type == IF HasKey(index, id) THEN ValueOf(index, id) ELSE <<>>
        edges == IF HasKey(by_type, edge.type) THEN ValueOf(by_type, edge.type) ELSE <<>>
    IN  SetKey(index, id, SetKey(by_type, edge.type, Append(edges, edge)))

\* KnowledgeGraph.add_node
KnowledgeGraph_add_node(kg, id) == [kg EXCEPT !.nodes = @ \cup {id}]

\* KnowledgeGraph.add_edge
KnowledgeGraph_add_edge(kg, edge) ==
    [kg EXCEPT !.edges = Append(@, edge),
               !.edge_index = Indexed(@, edge.source_id, edge),
               !.reverse_edge_index = Indexed(@, edge.target_id, edge)]

\* the truth value of an argument that is a string or None
Truthy(value) == value # None /\ value # ""

\* KnowledgeGraph.get_edges: the linear scan; a filter applies `if source_id and ...`
KnowledgeGraph_get_edges(kg, source_id, target_id, edge_type) ==
    SeqFilter(kg.edges, [i \in DOMAIN kg.edges |->
        /\ ~(Truthy(source_id) /\ kg.edges[i].source_id # source_id)
        /\ ~(Truthy(target_id) /\ kg.edges[i].target_id # target_id)
        /\ ~(Truthy(edge_type) /\ kg.edges[i].type # edge_type)])

\* KnowledgeGraph.get_edges_from: the lookup in the forward index
KnowledgeGraph_get_edges_from(kg, source_id, edge_type) ==
    IF ~HasKey(kg.edge_index, source_id) THEN <<>>
    ELSE LET by_type == ValueOf(kg.edge_index, source_id)
         IN  IF Truthy(edge_type)
             THEN IF HasKey(by_type, edge_type) THEN ValueOf(by_type, edge_type) ELSE <<>>
             ELSE Flatten([i \in DOMAIN by_type |-> by_type[i].value])

\* the ids of the calls: the id of the User node is the session id of the request, which
\* recommend_with_graph takes from the body as it is
IndexIds == {"", "s1", "variant_City_VX"}
IndexTargets == {"pref_s1_budget", "variant_City_VX"}
IndexTypes == {"PREFERS", "HAS_FEATURE"}

\* graph = KnowledgeGraph()
IndexStart ==
    /\ pc = "idle"
    /\ pc' = "indexing"
    /\ graph' = KnowledgeGraph_init
    /\ UNCHANGED <<call, request, context, ranked_variants, agent_trace, scoring, raised,
                   result, heap, runs, reads, adaptive_scoring, handlers>>

\* graph.add_node(Node(id, ...))
CallAddNode ==
    /\ pc = "indexing"
    /\ \E id \in IndexIds : graph' = KnowledgeGraph_add_node(graph, id)
    /\ UNCHANGED <<call, pc, request, context, ranked_variants, agent_trace, scoring, raised,
                   result, heap, runs, reads, adaptive_scoring, handlers>>

\* graph.add_edge(Edge(source_id, target_id, type))
CallAddEdge ==
    /\ pc = "indexing"
    /\ Len(graph.edges) < MaxIndexed
    /\ \E source_id \in IndexIds, target_id \in IndexTargets, type \in IndexTypes :
          graph' = KnowledgeGraph_add_edge(graph, [source_id |-> source_id,
                                                   target_id |-> target_id, type |-> type])
    /\ UNCHANGED <<call, pc, request, context, ranked_variants, agent_trace, scoring, raised,
                   result, heap, runs, reads, adaptive_scoring, handlers>>

NextIndex ==
    \/ IndexStart
    \/ CallAddNode
    \/ CallAddEdge

SpecIndex == Init /\ [][NextIndex]_vars

(***************************************************************************)
(* hybrid_graph_coalition.py: HybridGraphCoalition.apply and the dataclass *)
(* HybridDiagnostics.  A call either raises or returns; the re-scoring of  *)
(* the variants is not modelled, the order it induces is an input.         *)
(***************************************************************************)
\* the fields of the dataclass in declaration order; none has a default
HybridDiagnosticsFields ==
    <<"pagerank_ready", "comparison_mode", "comparison_targets", "similar_anchor",
      "exploration_rate", "top_brand_spread", "strictness_profile">>

\* HybridDiagnostics(*positional, **keywords) followed by to_dict(): the generated
\* __init__ raises TypeError when a field gets no argument
HybridDiagnostics(positional, keywords) ==
    LET fields == HybridDiagnosticsFields
        given == {fields[i] : i \in 1..Len(positional)} \cup DOMAIN keywords
    IN  IF given # Range(fields) THEN [raised |-> "TypeError"]
        ELSE [raised |-> None,
              value |-> [f \in Range(fields) |->
                            IF f \in DOMAIN keywords THEN keywords[f]
                            ELSE positional[CHOOSE i \in DOMAIN fields : fields[i] = f]]]

\* HybridGraphCoalition._variant_brand
HybridGraphCoalition_variant_brand(variant_match) ==
    IF variant_match.car.brand \notin {None, ""}
    THEN lower(strip(variant_match.car.brand))
    ELSE FirstWord(lower(variant_match.car.variant))

\* dict(Counter(_variant_brand(v) for v in ranked_variants[:5]))
TopBrandSpread(variants) ==
    LET top == Take(variants, 5)
        brands == {HybridGraphCoalition_variant_brand(top[i]) : i \in DOMAIN top}
    IN  [b \in brands |-> Cardinality({i \in DOMAIN top : HybridGraphCoalition_variant_brand(top[i]) = b})]

\* HybridGraphCoalition.apply, with `rescored` the list after the hybrid scores are
\* written and the list is sorted by them; exploration_rate is in percent
HybridGraphCoalition_apply(variants, kg, context_, user_control_config, rescored) ==
    IF variants = <<>>
    THEN CHOOSE out \in
            {IF diagnostics.raised # None THEN [raised |-> diagnostics.raised]
             ELSE [raised |-> None, value |-> <<<<>>, diagnostics.value>>] :
                diagnostics \in {HybridDiagnostics(<<FALSE, FALSE, 0, "", 0, <<>>>>, <<>>)}} : TRUE
    ELSE CHOOSE out \in
            {[raised |-> None,
              value |-> <<rescored,
                          HybridDiagnostics(<<>>,
                              [pagerank_ready |-> pagerank.score # <<>>,
                               comparison_mode |-> FALSE,
                               comparison_targets |-> 0,
                               similar_anchor |-> "",
                               exploration_rate |->
                                   Min2(50, Max2(0, IF user_control_config.exploration_rate = 0
                                                    THEN 10
                                                    ELSE user_control_config.exploration_rate)),
                               top_brand_spread |-> TopBrandSpread(rescored),
                               strictness_profile |->
                                   [key \in DOMAIN DefaultPriorities |->
                                       Strictness(user_control_config, key, 68)]]).value>>] :
                pagerank \in {_personalized_pagerank(kg, context_.session_id)}} : TRUE

\* the graphs of the calls: no node, or a user with preferences and variants
HybridGraphs ==
    {[nodes |-> {}, edges |-> <<>>],
     [nodes |-> {"s1", "pref_fuel", "pref_body", "v1", "v2"}, edges |-> SetToSeq(PageRankEdges)]}

\* the controls of the calls
HybridControls ==
    {[Controls("any", {}, {}, {}, DefaultPriorities) EXCEPT !.exploration_rate = rate,
                                                           !.exploration_rate_set = set] :
        rate \in {0, 35}, set \in BOOLEAN}

\* self.hybrid_coalition.apply(ranked_variants, graph, context, user_control_config)
CallApply ==
    /\ call = NoCall
    /\ \E cars \in {S \in SUBSET CarIds : Cardinality(S) <= 2}, kg \in HybridGraphs,
          session_id \in Sessions, user_control_config \in HybridControls :
       \E rescored \in Reorderings(RankedList(cars, 1)) :
          call' = [fn |-> "HybridGraphCoalition.apply",
                   ranked_variants |-> RankedList(cars, 1), kg |-> kg,
                   session_id |-> session_id,
                   outcome |-> HybridGraphCoalition_apply(
                                   RankedList(cars, 1), kg, [session_id |-> session_id],
                                   user_control_config, rescored)]
    /\ UNCHANGED pipeline_vars

SpecHybrid == Init /\ [][CallApply]_vars

(***************************************************************************)
(* Properties of the alignment engine and of the brand filter (SpecAlign). *)
(***************************************************************************)
IsFilterCall == call.fn = "_apply_brand_filters"
IsEnforceCall == call.fn = "enforce_alignment_on_ranked_variants"
IsStrictEnforceCall == IsEnforceCall /\ ~call.allow_relaxation

\* the brand each function sees for a variant
FilterBrand(v) == normalize_brand(BrandOrUnknown(v.car))
AlignBrand(v) == extract_brand_from_payload(v.car)

CallInput == IF IsFilterCall THEN call.scored_variants ELSE call.ranked_variants
CallBrand(v) == IF IsFilterCall THEN FilterBrand(v) ELSE AlignBrand(v)
CallPreferred == _to_normalized_set(call.controls.preferred_brands)
CallBlacklisted == _to_normalized_set(call.controls.blacklisted_brands)

\* a call under brand_mode=strict with a non-empty preferred set, relaxation disallowed
StrictBrandCall ==
    /\ IsFilterCall \/ IsStrictEnforceCall
    /\ call.controls.brand_mode = "strict"
    /\ CallPreferred # {}

PreferredInputs == {i \in DOMAIN CallInput : CallBrand(CallInput[i]) \in CallPreferred}

OnlyPreferredReturned ==
    \A i \in DOMAIN call.result : CallBrand(call.result[i]) \in CallPreferred

\* the single preferred-brand item of the pool has nothing else against it
PreferredItemAcceptable ==
    \A i \in PreferredInputs :
        /\ CallBrand(CallInput[i]) \notin CallBlacklisted
        /\ IsEnforceCall =>
              evaluate_variant_alignment(CallInput[i], call.rules,
                                         call.preferences).hard_failures = <<>>

\* C1 as stated: under strict mode only preferred brands are returned, and a pool of one
\* preferred-brand item plus N others yields exactly one result
C1_StrictExclusivityAsStated ==
    StrictBrandCall =>
        /\ OnlyPreferredReturned
        /\ Cardinality(PreferredInputs) = 1 => Len(call.result) = 1

\* C1 amended: under strict mode only preferred brands are returned; a pool of one
\* preferred-brand item plus N others yields that item alone when its brand is not
\* blacklisted and (alignment) it has no other hard failure, and nothing otherwise
C1_StrictExclusivity ==
    StrictBrandCall =>
        /\ OnlyPreferredReturned
        /\ Cardinality(PreferredInputs) = 1 =>
              Len(call.result) = (IF PreferredItemAcceptable THEN 1 ELSE 0)

C1_Witness ==
    /\ StrictBrandCall
    /\ IsFilterCall
    /\ Cardinality(PreferredInputs) = 1
    /\ Len(CallInput) >= 3
    /\ Len(call.result) = 1

\* C2: a brand in both the preferred and the blacklisted set is excluded: the filter drops
\* its items in every brand mode, alignment records the hard failure blacklisted_brand
\* for them, and strict enforcement never returns them
C2_BlacklistWins ==
    (IsFilterCall \/ IsEnforceCall) =>
    \A b \in CallPreferred \cap CallBlacklisted :
        /\ IsFilterCall =>
              \A i \in DOMAIN call.result : FilterBrand(call.result[i]) # b
        /\ IsEnforceCall =>
              /\ \A i \in DOMAIN call.ranked_variants :
                    AlignBrand(call.ranked_variants[i]) = b =>
                        <<"blacklisted_brand">> \in
                            Range(evaluate_variant_alignment(
                                      call.ranked_variants[i], call.rules,
                                      call.preferences).hard_failures)
              /\ \A i \in DOMAIN call.result :
                    AlignBrand(call.result[i]) = b =>
                        /\ call.allow_relaxation
                        /\ <<"blacklisted_brand">> \in Range(call.result[i].hard_failures)

C2_Witness ==
    /\ IsEnforceCall
    /\ call.allow_relaxation
    /\ call.controls.brand_mode = "preferred"
    /\ \E i \in DOMAIN call.result :
          AlignBrand(call.result[i]) \in CallPreferred \cap CallBlacklisted

\* the forms of a feature: its normalized name and its aliases
FeatureForms(f) ==
    {f} \cup (IF f \in DOMAIN _FEATURE_SYNONYMS THEN _FEATURE_SYNONYMS[f] ELSE {})

LacksFeature(v, f) == \A form \in FeatureForms(f) : ~InBlob(form, _flatten_car_text(v.car))

\* C4: a variant whose text has no form of a must-have feature gets the hard failure
\* missing_feature whatever the priority of `features`, and strict enforcement drops it
C4_MustHaveFeatureIsHard ==
    IsEnforceCall =>
        \A i \in DOMAIN call.ranked_variants :
            \A f \in call.rules.must_have_features :
                LacksFeature(call.ranked_variants[i], f) =>
                    /\ <<"missing_feature", f>> \in
                          Range(evaluate_variant_alignment(
                                    call.ranked_variants[i], call.rules,
                                    call.preferences).hard_failures)
                    /\ ~call.allow_relaxation =>
                          \A j \in DOMAIN call.result :
                              call.result[j].id # call.ranked_variants[i].id

C4_Witness ==
    /\ IsStrictEnforceCall
    /\ call.controls.scoring_priorities["features"] < 80
    /\ \E i \in DOMAIN call.ranked_variants :
          \E f \in call.rules.must_have_features : LacksFeature(call.ranked_variants[i], f)
    /\ call.result # <<>>
    /\ Len(call.result) < Len(call.ranked_variants)

\* C5: with relaxation allowed and at least 5 candidates, at least 5 results are returned
C5_RelaxationGuarantee ==
    (IsEnforceCall /\ call.allow_relaxation /\ Len(call.ranked_variants) >= 5) =>
        Len(call.result) >= 5

C5_Witness ==
    /\ IsEnforceCall
    /\ call.allow_relaxation
    /\ Len(call.ranked_variants) >= 5
    /\ \A i \in DOMAIN call.result : call.result[i].hard_failures # <<>>
    /\ Len(call.result) >= 5

(***************************************************************************)
(* Properties of a run of the pipeline (Spec).                             *)
(***************************************************************************)
Returned == pc = "returned"
RequestedControls == request.user_control_config
StrictPreferredRequest ==
    RequestedControls.brand_mode = "strict" /\ RequestedControls.preferred_brands # {}

\* the brand of a recommendation is not blacklisted, as the evaluator, the brand filter
\* and the alignment engine each read it
NotBlacklisted(r) ==
    /\ _variant_brand(r.car) \notin EvalBrandSet(RequestedControls.blacklisted_brands)
    /\ FilterBrand(r) \notin _to_normalized_set(RequestedControls.blacklisted_brands)
    /\ AlignBrand(r) \notin _to_normalized_set(RequestedControls.blacklisted_brands)

\* the brand of a recommendation is preferred, as the evaluator, the brand filter and the
\* alignment engine each read it
InPreferred(r) ==
    /\ _variant_brand(r.car) \in EvalBrandSet(RequestedControls.preferred_brands)
    /\ FilterBrand(r) \in _to_normalized_set(RequestedControls.preferred_brands)
    /\ AlignBrand(r) \in _to_normalized_set(RequestedControls.preferred_brands)

GoodCandidates ==
    {i \in DOMAIN scoring.returned :
        /\ evaluate_variant_alignment(scoring.returned[i], context.alignment_rules,
                                      context.extracted_preferences).hard_failures = <<>>
        /\ ~ValidationRemoves(scoring.returned[i], graph, context)}

\* C6: with no strict constraint active and at least 5 scored candidates that have no
\* hard failure and are not removed by Stage 6, the run returns 5 recommendations
C6_FiveRecommendations ==
    (/\ Returned
     /\ scoring.outcome = "ok"
     /\ ~context.strict_constraints_active
     /\ Cardinality(GoodCandidates) >= 5) => Len(result.recommendations) = 5

StageSteps == {10, 20, 30, 40, 50, 60, 70, 80}

\* the entries of the trace that an agent stage wrote with status 'error'
StageErrors == {i \in DOMAIN agent_trace :
                   agent_trace[i][1] \in StageSteps /\ agent_trace[i][2] = "error"}

\* C7: when an agent stage raises, the trace ends with that stage's id and 'error', the
\* exception leaves the run, no later stage runs and no result is ever returned
C7_StageFailureIsFatal ==
    /\ raised # 0 =>
          /\ pc = "raised"
          /\ result = Unset
          /\ agent_trace # <<>>
          /\ agent_trace[Len(agent_trace)] = <<raised, "error">>
    /\ \A i \in StageErrors :
          /\ i = Len(agent_trace)
          /\ raised = agent_trace[i][1]
          /\ \A j \in DOMAIN agent_trace : agent_trace[j][1] <= agent_trace[i][1]

\* Stage 6 raised after scoring, reranking and the coalition had run
C7_Witness ==
    /\ raised = 60
    /\ pc = "raised"
    /\ scoring.outcome = "ok"
    /\ agent_trace[Len(agent_trace)] = <<60, "error">>

\* C8: when the external scoring function raises, the run does not return a result
C8_ScoringFailureIsFatal == scoring.outcome = "raised" => ~Returned

\* Stage 5 completed and left no candidate
NoCandidateAfterStage5 ==
    /\ \E i \in DOMAIN agent_trace : agent_trace[i] = <<50, "ok">>
    /\ context.candidate_variants = <<>>

\* C9: when no candidate remains after Stage 5 the run does not raise, calls no scoring
\* function, runs no later stage, and returns empty recommendations and explanation
\* contexts with candidates_found, variants_scored and variants_validated zero
C9_EmptyCandidateSet ==
    NoCandidateAfterStage5 =>
        /\ pc \in {"scoring", "returned"}
        /\ raised = 0
        /\ scoring.calls = 0
        /\ \A i \in DOMAIN agent_trace : agent_trace[i][1] <= 50
        /\ Returned =>
              /\ result.recommendations = <<>>
              /\ result.explanation_contexts = <<>>
              /\ result.pipeline_stats.candidates_found = 0
              /\ result.pipeline_stats.variants_scored = 0
              /\ result.pipeline_stats.variants_validated = 0

C9_Witness == NoCandidateAfterStage5 /\ Returned /\ result.status = "no_candidates"

(***************************************************************************)
(* Properties of concurrent runs (SpecConcurrent).                         *)
(***************************************************************************)
Started(r) == runs[r].pc # "idle"
RunReasoner(r) == heap[runs[r].context].value.path_reasoner
RunObjects(r) == {runs[r].graph, runs[r].context, RunReasoner(r)}

\* C10: every call has a graph, a context and a path reasoner of its own, the reasoner
\* works on the call's graph, and no run reads a node, an edge, a context entry or a
\* cached path result that the other run wrote
C10_RunIsolation ==
    /\ \A r \in Runs : Started(r) =>
          /\ Cardinality(RunObjects(r)) = 3
          /\ heap[runs[r].graph].kind = "graph"
          /\ heap[runs[r].context].kind = "context"
          /\ heap[RunReasoner(r)].kind = "reasoner"
          /\ heap[RunReasoner(r)].graph = runs[r].graph
          /\ \A q \in Runs \ {r} : Started(q) => RunObjects(q) \cap RunObjects(r) = {}
    /\ \A e \in reads : e.kind \in {"graph", "context", "reasoner"} => e.reader = e.writer

\* two calls with the same session id in progress at once: the call that started second
\* has stored path results, read them back and returned while the first, which holds
\* results for the same keys, has not; the bridge they share was read across runs
C10_Witness ==
    /\ runs[1].pc = "returned"
    /\ runs[2].pc = "scoring"
    /\ runs[1].session_id = runs[2].session_id
    /\ runs[2].graph < runs[1].graph
    /\ heap[RunReasoner(1)].writers = {1}
    /\ heap[RunReasoner(2)].writers = {2}
    /\ \E e1 \in heap[RunReasoner(1)].cache, e2 \in heap[RunReasoner(2)].cache :
          e1.variant_id = e2.variant_id /\ e1.user_id = e2.user_id
    /\ [reader |-> 1, writer |-> 1, kind |-> "reasoner"] \in reads
    /\ \E e \in reads : e.kind = "bridge" /\ e.reader # e.writer

(***************************************************************************)
(* Properties of the knowledge graph (SpecGraph).                          *)
(***************************************************************************)
IsTraverseCall == call.fn = "traverse"

RECURSIVE PathsAlong(_, _, _)
\* the node sequences from a node that follow, step by step, an outgoing edge of the
\* next type to a node, and repeat no node
PathsAlong(kg, edge_types, prefix) ==
    IF edge_types = <<>> THEN {prefix}
    ELSE UNION {PathsAlong(kg, Tail(edge_types), Append(prefix, n)) :
                   n \in {m \in kg.nodes \ Range(prefix) :
                             has_edge(kg, prefix[Len(prefix)], m, Head(edge_types))}}

\* C11: traverse with no more edge types than max_depth returns every completed path:
\* exactly the repeat-free node sequences that follow the edge types from the start
C11_TraverseReturnsEveryPath ==
    (/\ IsTraverseCall
     /\ call.query.start_node_id \in call.kg.nodes
     /\ Len(call.query.edge_types) <= call.query.max_depth) =>
        Range(call.result)
            = PathsAlong(call.kg, call.query.edge_types, <<call.query.start_node_id>>)

\* C12: a graph with the same nodes and edges, the edges of each type inserted in another
\* order, gives the same neighbours, the same has_edge answers and the same set of paths
C12_InsertionOrderIndependence ==
    call # NoCall /\ call.fn \in {"get_neighbors", "has_edge", "traverse"} =>
        IF call.fn = "has_edge" THEN call.result = call.reordered_result
        ELSE Range(call.result) = Range(call.reordered_result)

IsEvaluateCall == call.fn = "evaluate_variant_alignment"

\* C13: for a fixed pool and otherwise identical preferences and controls, raising one
\* dimension's priority from below 0.8 to 0.8 or above never increases the number of
\* candidates that evaluate_variant_alignment marks compliant.
C13_RaisingPriorityNeverAddsCompliant ==
    (/\ IsEvaluateCall
     /\ call.controls.scoring_priorities[call.key] < 80
     /\ call.raised_controls.scoring_priorities[call.key] >= 80)
    => Cardinality(call.raised_compliant) <= Cardinality(call.compliant)

\* a call where raising the priority made a compliant candidate non-compliant
C13_Witness ==
    /\ IsEvaluateCall
    /\ call.controls.scoring_priorities[call.key] < 80
    /\ call.raised_controls.scoring_priorities[call.key] >= 80
    /\ Cardinality(call.raised_compliant) < Cardinality(call.compliant)
    /\ call.raised_compliant # {}

IsEnhanceCall == call.fn = "enhance_scoring_with_diversity"

\* C14: with max_per_brand = 1, the top-5 list of the diversity engine holds at most one
\* item of any brand whenever the candidate pool (after the brand filters) holds at least
\* five distinct brands.
C14_OnePerBrandInTopFive ==
    (/\ IsEnhanceCall
     /\ call.max_per_brand = 1
     /\ Cardinality(BrandsOf(call.pool)) >= 5)
    => \A i, j \in DOMAIN call.result :
          i # j => _extract_brand(call.result[i]) # _extract_brand(call.result[j])

\* the update_from_feedback calls for a session that have returned
CompletedCalls(session_id) ==
    {h \in Handlers : handlers[h].pc = "done" /\ handlers[h].session_id = session_id}

\* the feedback history of a session as a reader of the dictionary finds it
HistoryOf(session_id) ==
    IF session_id \in DOMAIN adaptive_scoring.user_feedback_history
    THEN adaptive_scoring.lists[adaptive_scoring.user_feedback_history[session_id]]
    ELSE <<>>

\* C15: under any interleaving of concurrent update_from_feedback calls for one session
\* no feedback entry is lost: once the n calls made for a session have all completed,
\* the session's history holds n entries.
C15_NoFeedbackLost ==
    \A session_id \in Sessions :
        (\A h \in Handlers : handlers[h].session_id = session_id => handlers[h].pc = "done")
        => Len(HistoryOf(session_id)) = Cardinality(CompletedCalls(session_id))

\* C16: agent_trace lists the steps in execution order: the step ids of the entries are
\* strictly increasing (1, 2, 3, 4, 5, 5.5, 5.7, 6, 7, 8; ids are in tenths)
C16_TraceStrictlyIncreasing ==
    \A i \in 1..(Len(agent_trace) - 1) : agent_trace[i][1] < agent_trace[i + 1][1]

\* C17: for a non-empty graph that contains the user node, the node scores before the
\* division by the maximum sum to 1.0 (100000 units) within tolerance (here 1/100).
C17_PageRankMassIsOne ==
    (call.fn = "_personalized_pagerank" /\ call.session_id \in call.kg.nodes)
    => LET score == call.result.score
           total == SumOver(DOMAIN score, score)
       IN  total >= 100000 - 1000 /\ total <= 100000 + 1000

\* C18: no variant that Stage 6 validation removed appears in the final recommendations of
\* the run, also when validation removes every ranked variant and when Stage 7 or the
\* final backfill re-populates the list
C18_RemovedVariantsStayOut ==
    (pc = "returned" /\ result.status = "ok")
    => \A i \in DOMAIN result.recommendations :
          lower(result.recommendations[i].car.variant)
              \notin context.validation_removed_variant_names

\* a session graph is being built or is built
InSessionGraph == pc \in {"extract", "prune", "match", "tradeoff", "history", "built"}

\* C19: at every point of a run the session graph holds at most one edge for any
\* (source, target, type), for every preferences input (repeated feature names too) and
\* every catalog (shared variant names too)
C19_NoDuplicateEdges ==
    InSessionGraph =>
        \A i, j \in DOMAIN graph.edges : i # j => graph.edges[i] # graph.edges[j]

\* C20: after each stage completes, the source and the target of every edge of the
\* session graph are nodes of the graph
C20_EdgeEndpointsAreNodes ==
    InSessionGraph =>
        \A i \in DOMAIN graph.edges :
            graph.edges[i].source_id \in graph.nodes /\ graph.edges[i].target_id \in graph.nodes

\* a built graph with edges of every stage, after a history that names an unknown variant
\* and one that names a variant by part of its name
C20_Witness ==
    /\ pc = "built"
    /\ \A type \in {"PREFERS", "SUITABLE_FOR", "VIOLATES", "HAS_FEATURE", "INVOLVES_TRADEOFF",
                    "VIEWED"} :
          \E i \in DOMAIN graph.edges : graph.edges[i].type = type
    /\ \E i \in DOMAIN request.conversation_history :
          request.conversation_history[i].variant = "Nexon"

\* the calls of score_variant_by_paths of a request, in order
ReasonerCalls == IF pc = "matching" THEN agent_trace ELSE <<>>

\* C21: within one request, after the first score_variant_by_paths(v, u, ...) call every
\* later call with the same (v, u) returns the result of the first and does not compute
\* it from the graph, whatever was added to the graph in between and whatever preferences
\* argument is passed
C21_LaterCallsReturnFirstResult ==
    \A i, j \in DOMAIN ReasonerCalls :
        (/\ i < j
         /\ ReasonerCalls[i].variant_id = ReasonerCalls[j].variant_id
         /\ ReasonerCalls[i].user_id = ReasonerCalls[j].user_id)
        => /\ ReasonerCalls[j].result = ReasonerCalls[i].result
           /\ ~ReasonerCalls[j].computed

\* a later call with another preferences argument returns the first result although the
\* graph would now give another one
C21_Witness ==
    \E i, j \in DOMAIN ReasonerCalls :
        /\ i < j
        /\ ReasonerCalls[i].variant_id = ReasonerCalls[j].variant_id
        /\ ReasonerCalls[i].preferences # ReasonerCalls[j].preferences
        /\ ReasonerCalls[j].result = ReasonerCalls[i].result
        /\ ComputePaths(graph, ReasonerCalls[j].variant_id, "s1") # ReasonerCalls[j].result

\* C22: the path result the post-scoring blend uses for a candidate has a
\* PREFERS-to-HAS_FEATURE contribution, preference weight times match_score, for every
\* HAS_FEATURE edge Stage 3 created from the candidate to a preference the user PREFERS
C22_BlendCountsHasFeatureEdges ==
    \A j \in DOMAIN ReasonerCalls :
        ReasonerCalls[j].caller = "blend" =>
            \A i \in DOMAIN graph.edges :
                (/\ graph.edges[i].type = "HAS_FEATURE"
                 /\ graph.edges[i].source_id = ReasonerCalls[j].variant_id
                 /\ has_edge(graph, "s1", graph.edges[i].target_id, "PREFERS"))
                => [key |-> "pref_" \o graph.properties[graph.edges[i].target_id].key,
                    score |-> (graph.properties[graph.edges[i].target_id].weight
                               * graph.edges[i].match_score) \div 100]
                   \in ReasonerCalls[j].result.path_scores

\* C23: for every conversation history, each variant of the graph that a history entry
\* with action 'rejected' names has a REJECTED edge from the user node after Stage 5 and
\* no row among the candidate rows handed to the external scoring function
C23_RejectedVariantsLeaveCandidates ==
    pc = "built" =>
        \A i \in DOMAIN request.conversation_history :
            LET entry == request.conversation_history[i]
                variant_id == "variant_" \o Underscored(entry.variant)
            IN  (entry.action = "rejected" /\ variant_id \in graph.nodes)
                => /\ has_edge(graph, request.session_id, variant_id, "REJECTED")
                   /\ \A k \in DOMAIN CandidateRows(graph, context, request.variants_df) :
                         CandidateRows(graph, context, request.variants_df)[k].variant
                             # entry.variant

\* a variant that Stage 3 made a candidate is rejected twice in the history, and another
\* candidate is still handed to the scoring function
C23_Witness ==
    /\ pc = "built"
    /\ Len(request.conversation_history) = 2
    /\ \A i \in DOMAIN request.conversation_history :
          /\ request.conversation_history[i].action = "rejected"
          /\ request.conversation_history[i].variant = "Nexon XZ"
    /\ has_edge(graph, "variant_Nexon_XZ", "pref_s1_budget", "HAS_FEATURE")
    /\ has_edge(graph, "s1", "variant_Nexon_XZ", "REJECTED")
    /\ context.candidate_variants = <<"variant_City_VX">>
    /\ CandidateRows(graph, context, request.variants_df) # <<>>

\* C24: given more than top_k candidates, enforce_diversity returns exactly top_k distinct
\* candidates; when the round-robin picks are fewer than top_k, the remaining slots hold
\* the best remaining candidates by combined_score
C24_EnforcerReturnsTopK ==
    (call.fn = "enforce_diversity" /\ Len(call.variants) > call.top_k)
    => /\ Len(call.result) = call.top_k
       /\ \A i, j \in DOMAIN call.result : i # j => call.result[i].id # call.result[j].id
       /\ Len(call.picks) < call.top_k
          => call.result =
                Take(call.picks
                     \o SortedByScore(SeqFilter(call.variants, [i \in DOMAIN call.variants |->
                            \A j \in DOMAIN call.picks :
                                call.picks[j].id # call.variants[i].id])),
                     call.top_k)

\* C25: in filter_variants a dimension (fuel type, body type, transmission, seating) that
\* is not already a must-have is a hard filter exactly when 0.68*priority +
\* 0.32*(1 - exploration_rate/0.5), clamped to [0, 1], is at least 0.78; otherwise a row
\* that mismatches it is kept and the mismatch is recorded as a soft violation
C25_HardFilterByStrictness ==
    call.fn = "filter_variants" =>
        \A key \in FilterDimensions \ call.context.must_have_preferences :
        \A c \in CarIds :
            LET mismatched == {m[1] : m \in call.result.soft_violations[c]}
            IN  mismatched = {key} =>
                    IF Strictness(call.context.user_control_config, key, 68) >= 7800
                    THEN c \notin call.result.kept
                    ELSE c \in call.result.kept

\* the adaptive scoring system as the module creates it
FreshSystem ==
    [user_feedback_history |-> <<>>, lists |-> <<>>, learned_weights |-> DefaultLearnedWeights]

RECURSIVE OwnEntries(_, _)
\* the entries of a feedback log that were posted under session_id
OwnEntries(log, session_id) ==
    IF log = <<>> THEN <<>>
    ELSE IF Head(log).session_id = session_id
    THEN <<Head(log)>> \o OwnEntries(Tail(log), session_id)
    ELSE OwnEntries(Tail(log), session_id)

RECURSIVE Replay(_, _)
\* the system after the update_from_feedback calls of a log, made on `system` in order
Replay(system, log) ==
    IF log = <<>> THEN system
    ELSE Replay(update_from_feedback(system, Head(log).session_id, Head(log).feedback),
                Tail(log))

\* C26: over any sequence of update_from_feedback calls the learned diversity_weight never
\* decreases, rises by at most 0.05 per call and never exceeds 0.5, and the learned
\* max_variants_per_brand never increases and never drops below 1.
C26_LearnedWeightsMoveOneWay ==
    /\ adaptive_scoring.learned_weights.diversity_weight <= 50
    /\ adaptive_scoring.learned_weights.max_variants_per_brand >= 1
    /\ call.fn = "update_from_feedback" =>
          /\ adaptive_scoring.learned_weights.diversity_weight
                >= call.learned_before.diversity_weight
          /\ adaptive_scoring.learned_weights.diversity_weight
                <= call.learned_before.diversity_weight + 5
          /\ adaptive_scoring.learned_weights.max_variants_per_brand
                <= call.learned_before.max_variants_per_brand

\* a fifth call in a row in which the session accepts two brands and rejects a third: the
\* weight was at the cap and the brand limit at the floor before the call
C26_Witness ==
    /\ call.fn = "update_from_feedback"
    /\ Len(request.feedback_log) = 5
    /\ \A i \in DOMAIN request.feedback_log :
          /\ request.feedback_log[i].session_id = call.session_id
          /\ request.feedback_log[i].feedback.rejected_variants = <<"Kia Seltos HTK+">>
    /\ call.learned_before = [diversity_weight |-> 50, max_variants_per_brand |-> 1]
    /\ adaptive_scoring.learned_weights = call.learned_before

\* C30: the weights get_weights returns for a request do not depend on feedback submitted
\* under other session ids: the weights are those of the history that holds only the
\* entries of the session of the request.
C30_WeightsIgnoreOtherSessions ==
    call.fn = "get_weights" =>
        call.result = get_weights(Replay(FreshSystem,
                                         OwnEntries(request.feedback_log, call.session_id)),
                                  <<>>, call.user_control_config)

\* C27: after any sequence of add_node and add_edge calls the indices agree with the edge
\* list: for every id s and every optional edge type t, get_edges_from(s, t) returns the
\* same set of edges as get_edges(source_id=s, edge_type=t).
C27_IndexAgreesWithScan ==
    pc = "indexing" =>
        \A s \in IndexIds, t \in IndexTypes \cup {None} :
            Range(KnowledgeGraph_get_edges_from(graph, s, t))
                = Range(KnowledgeGraph_get_edges(graph, s, None, t))

\* C28: in every completed run, explanation_contexts describes exactly the variants in
\* recommendations, one context per recommendation and in the same order.
C28_OneContextPerRecommendation ==
    (pc = "returned" /\ result.status = "ok")
    => /\ Len(result.explanation_contexts) = Len(result.recommendations)
       /\ \A i \in DOMAIN result.recommendations :
             result.explanation_contexts[i] = result.recommendations[i].id

\* C29: HybridGraphCoalition.apply called with an empty ranked list returns an empty list
\* together with a diagnostics mapping whose pagerank_ready is false, without raising.
C29_EmptyListReturnsDiagnostics ==
    (call.fn = "HybridGraphCoalition.apply" /\ call.ranked_variants = <<>>)
    => /\ call.outcome.raised = None
       /\ call.outcome.value[1] = <<>>
       /\ call.outcome.value[2].pagerank_ready = FALSE

====
